---- MODULE Spec2Model ----
(***************************************************************************)
(* Element resolution ("Find Element By Description") of the n8n RPA       *)
(* Playwright/CDP nodes.  The repository holds several variants of the     *)
(* node's execute(); six of them are modelled, one state machine each,    *)
(* selected by `variant`:                                                  *)
(*   "full"    src/unnamed/part_004:655-882   heuristic -> AI -> fallback  *)
(*   "node"    src/nodes/Interactions/FindElementByDescription.node.ts     *)
(*   "chunked" src/unnamed/part_004:322-481   waitForSelector validation   *)
(*   "p5"      src/unnamed/part_005:111-450   validatedResults + ranking   *)
(*   "new"     FindElementByDescriptionNew.node.ts  suggestion list        *)
(*   "nodefb"  src/unnamed/part_004:1268-1669 "node" + last-resort fallback*)
(* The page (DOM) and the AI provider are the environment: what a query    *)
(* finds and what the provider answers is chosen at every query and call.  *)
(***************************************************************************)
EXTENDS Integers, Sequences, FiniteSets, TLC

VARIABLES
  items,        \* the input items: items[k] is the session object items[k].json
  variant,      \* which execute() is running
  idx,          \* loop variable i of `for (let i = 0; i < items.length; i++)`, 1-based
  results,      \* the results array
  pc,           \* position inside execute()
  cfg,          \* the node parameters and page of the current item
  browser,      \* "null" | "open" | "closed" | "closedTwice": the item's
                \* Browser handle, and whether close() was invoked on it once
                \* or once more
  proof,        \* history: the answers of the page when `validated` was last set
  selector, confidence, reasoning, alternatives, validated,   \* the loose locals
  attempts,     \* attempt / attempts counter of the while loop
  chunkIx,      \* index of the chunk the `for (const chunk of ...)` loop is at
  candIx,       \* index of the candidate the heuristic loop is at
  vals,         \* validatedResults (p5) / suggestions (new)
  lastAi,       \* history: how the item's latest synthesis call ended
  conn,         \* history: how connecting to the page went for the item
  rejects,      \* history: what the page answered for the selectors the
                \* latest attempt tried and did not accept
  calls,        \* per item: provider calls and DOM queries issued so far
  origin,       \* history: the strategy outcome that last wrote each of
                \* selector, confidence, reasoning, alternatives
  extractor,    \* NeuralHeuristic: the field extractor, "null" or "model"
  isInitializing,   \* NeuralHeuristic: the field isInitializing
  tasks,        \* the calls made on the NeuralHeuristic singleton, each with
                \* the await it is suspended at and what it returned
  loads         \* history: the pipeline() loads started, each "pending",
                \* "ok" or "failed"

vars == <<items, variant, idx, results, pc, cfg, browser, proof, selector, confidence,
          reasoning, alternatives, validated, attempts, chunkIx, candIx, vals, lastAi, conn, rejects,
          calls, origin, extractor, isInitializing, tasks, loads>>

\* the state of execute(), and that of the NeuralHeuristic singleton
execVars == <<items, variant, idx, results, pc, cfg, browser, proof, selector, confidence,
              reasoning, alternatives, validated, attempts, chunkIx, candIx, vals, lastAi,
              conn, rejects, calls, origin>>
neural == <<extractor, isInitializing, tasks, loads>>

-----------------------------------------------------------------------------
(* Bounds of the model *)

MaxItems == 1
MaxAttemptsBound == 2
MaxSortLen == 3
MaxBatchItems == 2
MaxChunks == 3
MaxCallers == 3

-----------------------------------------------------------------------------
(* JavaScript strings *)

Undefined == "<undefined>"

UpperCase == "ABCDEFGHIJKLMNOPQRSTUVWXYZ"
LowerCase == "abcdefghijklmnopqrstuvwxyz"

Char(s, i) == SubSeq(s, i, i)

LowerChar(c) ==
  IF \E i \in 1..Len(UpperCase) : Char(UpperCase, i) = c
  THEN Char(LowerCase, CHOOSE i \in 1..Len(UpperCase) : Char(UpperCase, i) = c)
  ELSE c

RECURSIVE toLowerCase(_)
toLowerCase(s) ==
  IF Len(s) = 0 THEN "" ELSE LowerChar(Char(s, 1)) \o toLowerCase(SubSeq(s, 2, Len(s)))

\* String.prototype.includes
includes(a, k) == \E i \in 1..(Len(a) - Len(k) + 1) : SubSeq(a, i, i + Len(k) - 1) = k

IsSpace(c) == c = " "

\* s.split(/\s+/): the maximal runs of non-space characters, an empty string
\* where s begins or ends with white space
RECURSIVE splitWs(_, _)
splitWs(s, cur) ==
  IF Len(s) = 0 THEN <<cur>>
  ELSE IF IsSpace(Char(s, 1))
       THEN IF Len(s) > 1 /\ IsSpace(Char(s, 2))
            THEN splitWs(SubSeq(s, 2, Len(s)), cur)
            ELSE <<cur>> \o splitWs(SubSeq(s, 2, Len(s)), "")
       ELSE splitWs(SubSeq(s, 2, Len(s)), cur \o Char(s, 1))

RECURSIVE SelectSeqLong(_)
SelectSeqLong(ws) ==
  IF ws = <<>> THEN <<>>
  ELSE (IF Len(Head(ws)) > 2 THEN <<Head(ws)>> ELSE <<>>) \o SelectSeqLong(Tail(ws))

\* descLower.split(/\s+/).filter(w => w.length > 2)
Keywords(descLower) == SelectSeqLong(splitWs(descLower, ""))

-----------------------------------------------------------------------------
(* The page *)

\* What a query for one selector finds: the query throws (the selector is not
\* valid for the engine), or n elements match, the first one having this tag
\* name and type attribute.
InvalidSelector == [err |-> TRUE, n |-> 0, tag |-> "", typ |-> ""]
NoElement == [err |-> FALSE, n |-> 0, tag |-> "", typ |-> ""]
Found(n, tag, typ) == [err |-> FALSE, n |-> n, tag |-> tag, typ |-> typ]

\* the elements of the pages the model runs on; the variants that never read
\* the tag see one kind of element
PageElements(v) ==
  IF v \in {"node", "p5", "nodefb"}
  THEN {[tag |-> "input", typ |-> "checkbox"], [tag |-> "input", typ |-> "radio"]}
  ELSE {[tag |-> "input", typ |-> "checkbox"]}
Answers(v) ==
  {InvalidSelector, NoElement}
  \cup {Found(n, e.tag, e.typ) : n \in 1..2, e \in PageElements(v)}

Falsy(sel) == sel = "" \/ sel = Undefined

\* page.$(sel) / page.waitForSelector(sel), Playwright's engine, on a page that
\* answers a: an empty or missing selector does not parse
Query(a, sel) == IF Falsy(sel) THEN InvalidSelector ELSE a

\* page.evaluate(s => document.querySelectorAll(s).length, sel): the browser's
\* own engine, which does not know Playwright's :has-text()
NativeQuery(a, sel) ==
  IF Falsy(sel) \/ includes(sel, ":has-text(") THEN InvalidSelector ELSE a

Exists(a) == ~a.err /\ a.n >= 1

\* the tag-compatibility switch
TypeMatches(elementType, tagName, typeAttr) ==
  CASE elementType = "input" -> tagName = "input"
    [] elementType = "button" -> tagName = "button"
    [] elementType = "select" -> tagName = "select"
    [] elementType = "checkbox" -> tagName = "input" /\ typeAttr = "checkbox"
    [] elementType = "radio" -> tagName = "input" /\ typeAttr = "radio"
    [] elementType = "textarea" -> tagName = "textarea"
    [] elementType = "div" -> tagName = "div"
    [] elementType = "a" -> tagName = "a"
    [] elementType = "img" -> tagName = "img"
    [] elementType = "span" -> tagName = "span"
    [] elementType = "p" -> tagName = "p"
    [] elementType = "h1,h2,h3,h4,h5,h6" -> tagName \in {"h1", "h2", "h3", "h4", "h5", "h6"}
    [] elementType = "table" -> tagName = "table"
    [] elementType = "*" -> TRUE
    [] OTHER -> FALSE

-----------------------------------------------------------------------------
(* Candidates and the heuristic matcher *)

Cand(tagName, id, name, href, text) ==
  [tagName |-> tagName, id |-> id, name |-> name, href |-> href, ariaLabel |-> "",
   placeholder |-> "", title |-> "", alt |-> "", text |-> text]

CandId == Cand("button", "Submit", "", "", "OK")            \* id equals the description
CandName == Cand("input", "", "submit_order", "", "")       \* name contains the keyword
CandText == Cand("button", "", "", "", "Submit order")      \* only the text contains it
CandOther == Cand("a", "", "", "/pricing/plans", "Pricing") \* nothing matches

\* the candidate lists page.evaluate returns, in document order
CandLists ==
  {<<>>, <<CandId>>, <<CandOther, CandId>>, <<CandName, CandId>>, <<CandText, CandId>>}

\* a page whose only candidate is <button id="submitBtn">Submit</button>
CandSubmitBtn == Cand("button", "submitBtn", "", "", "Submit")

Descriptions == {"Submit", "submit button"}

\* the pages an item with this description is run on
CandListsFor(description) ==
  IF description = "submit button" THEN {<<CandSubmitBtn>>} ELSE CandLists

\* [cand.id, cand.name, cand.placeholder, cand.text, cand.ariaLabel, cand.href,
\*  cand.title, cand.alt].map(v => String(v || '').toLowerCase())
Atts(cand) ==
  { toLowerCase(v) : v \in {cand.id, cand.name, cand.placeholder, cand.text,
                            cand.ariaLabel, cand.href, cand.title, cand.alt} }

IsExact(cand, description) == toLowerCase(description) \in Atts(cand)

IsFuzzy(cand, description) ==
  LET keywords == Keywords(toLowerCase(description))
  IN  /\ Len(keywords) > 0
      /\ \A i \in 1..Len(keywords) : \E a \in Atts(cand) : includes(a, keywords[i])

\* the position of the first character of s that is in cs, or Len(s) + 1
FirstOf(s, cs) ==
  IF \E i \in 1..Len(s) : Char(s, i) \in cs
  THEN CHOOSE i \in 1..Len(s) : Char(s, i) \in cs /\ \A j \in 1..(i - 1) : Char(s, j) \notin cs
  ELSE Len(s) + 1

\* s.split('/')
RECURSIVE splitSlash(_, _)
splitSlash(s, cur) ==
  IF Len(s) = 0 THEN <<cur>>
  ELSE IF Char(s, 1) = "/"
       THEN <<cur>> \o splitSlash(SubSeq(s, 2, Len(s)), "")
       ELSE splitSlash(SubSeq(s, 2, Len(s)), cur \o Char(s, 1))

\* const last = pathParts.pop() || pathParts.pop()
LastPart(href) ==
  LET pathParts == splitSlash(SubSeq(href, 1, FirstOf(href, {"?", "#"}) - 1), "")
      n == Len(pathParts)
  IN  IF pathParts[n] # "" THEN pathParts[n]
      ELSE IF n > 1 THEN pathParts[n - 1] ELSE Undefined

constructRobustSelector(t, index) ==
  IF t.id # "" THEN "#" \o t.id
  ELSE IF t.name # "" THEN "[name=\"" \o t.name \o "\"]"
  ELSE IF t.href # "" /\ Len(t.href) > 5
       THEN LET last == LastPart(t.href)
            IN  IF ~Falsy(last) /\ Len(last) > 3
                THEN t.tagName \o "[href*=\"" \o last \o "\"]"
                ELSE t.tagName \o "[href=\"" \o t.href \o "\"]"
  ELSE IF t.ariaLabel # "" THEN "[aria-label=\"" \o t.ariaLabel \o "\"]"
  ELSE IF t.placeholder # "" THEN "[placeholder=\"" \o t.placeholder \o "\"]"
  ELSE IF t.title # "" THEN "[title=\"" \o t.title \o "\"]"
  ELSE IF t.alt # "" THEN "[alt=\"" \o t.alt \o "\"]"
  ELSE IF t.text # "" /\ Len(t.text) > 2 /\ Len(t.text) < 50
       THEN t.tagName \o ":has-text(\"" \o t.text \o "\")"
  ELSE t.tagName \o ":nth-of-type(" \o ToString(index + 1) \o ")"

-----------------------------------------------------------------------------
(* Node parameters and the environment's answers *)

Variants == {"full", "node", "chunked", "p5", "new", "nodefb"}

chunkSize == 35000

ElementTypes(v) == IF v \in {"node", "p5", "nodefb"} THEN {"checkbox", "*"} ELSE {"*"}

\* lengths of the page's body HTML; page.content() is never empty
HtmlLens(v) ==
  CASE v \in {"chunked", "p5"} -> {1000, chunkSize + 1}
    [] OTHER -> {1000}

\* lengths of the HTML of the page's elements of type et, joined: 0 when the
\* page has no element of the type
TypedLens(et) == IF et = "*" THEN {0} ELSE {0, 500}

Config(ma, et, desc, cands, disc, heur, ai, sem, len, typed) ==
  [maxAttempts |-> ma, elementType |-> et, description |-> desc, candidates |-> cands,
   discoveryMode |-> disc, heuristicSearch |-> heur, useAI |-> ai,
   semanticValidation |-> sem, htmlLen |-> len, typedLen |-> typed]

\* the parameters an item can be run with; the options hidden in discovery
\* mode keep their defaults there, the variants without the options of "full"
\* run as AI search alone
Configs(v) ==
  IF v = "full"
  THEN { c \in { Config(ma, "*", desc, cands, disc, heur, ai, sem, 1000, 0) :
                   ma \in 1..MaxAttemptsBound, desc \in Descriptions,
                   cands \in CandLists \cup {<<CandSubmitBtn>>},
                   disc \in BOOLEAN, heur \in BOOLEAN, ai \in BOOLEAN, sem \in BOOLEAN } :
           /\ c.candidates \in CandListsFor(c.description)
           /\ c.discoveryMode => (c.heuristicSearch /\ c.useAI /\ c.semanticValidation) }
  ELSE { c \in { Config(ma, et, "Submit", <<>>, FALSE, FALSE, TRUE, FALSE, len, typed) :
                   ma \in 1..MaxAttemptsBound, et \in ElementTypes(v), len \in HtmlLens(v),
                   typed \in {0, 500} } :
           c.typedLen \in TypedLens(c.elementType) }

\* the parameters of an item of a batch of several items: one attempt, and
\* the pages with at most one candidate
BatchConfigs(v) ==
  { c \in Configs(v) : /\ c.maxAttempts = 1
                       /\ c.description = "Submit"
                       /\ c.candidates \in {<<>>, <<CandId>>} }
ItemConfigs(v) == IF Len(items) > 1 THEN BatchConfigs(v) ELSE Configs(v)

NoConfig == Config(0, "*", "", <<>>, FALSE, FALSE, FALSE, FALSE, 0, 0)

\* chromium.connectOverCDP / waitForLoadState
ConnOutcomes == {"ok", "connectThrows", "loadThrows"}
BrowserAfter(how) == IF how = "connectThrows" THEN "null" ELSE "open"

\* full: the page is reached and page.evaluate, which collects the candidates,
\* throws
FullOutcomes == ConnOutcomes \cup {"evaluateThrows"}

\* what one synthesis call brings back: the call throws, the text is no JSON,
\* or it is an object with these fields
Response(kind, sel, conf, alts) ==
  [kind |-> kind, selector |-> sel, confidence |-> conf, alternatives |-> alts]
Responses ==
  { Response("throws", Undefined, 0, <<>>),
    Response("malformed", Undefined, 0, <<>>),
    Response("json", Undefined, 0, <<>>),
    Response("json", "", 50, <<"#b">>),
    Response("json", "#a", 90, <<>>),
    Response("json", "#a", 90, <<"#b">>),
    Response("json", "#a", 150, <<>>) }

\* the answer to the semantic-validation question: JSON with matches true,
\* JSON with matches false, the call throws, the text is no JSON (parseAiJson
\* throws), JSON without a matches field
Verdicts == {"yes", "no", "throws", "malformed", "noField"}

\* the answer to the semantic-fallback question
FbKinds == {"throws", "malformed", "noIndex", "index"}

NoCalls == [synth |-> 0, sem |-> 0, fb |-> 0, page |-> 0]

\* a strategy outcome: the heuristic match, AI attempt `attempt` on chunk
\* `chunk`, the semantic fallback, or the catch of the item's try; "init" is
\* the declaration of the locals
Outcome(by, chunk, attempt) == [by |-> by, chunk |-> chunk, attempt |-> attempt]

Locals == {"selector", "confidence", "reasoning", "alternatives"}

NoOrigin == [f \in Locals |-> Outcome("init", 0, 0)]

\* private extractor: any = null; private isInitializing = false; no call made
NoNeural == extractor = "null" /\ isInitializing = FALSE /\ tasks = <<>> /\ loads = <<>>

\* the locals in fields are assigned by outcome, the others keep their value
Assigned(from, fields, outcome) ==
  [f \in Locals |-> IF f \in fields THEN outcome ELSE from[f]]

-----------------------------------------------------------------------------
(* Shared steps *)

\* the session object the item at position k of the input carries
Session(k) == [sessionId |-> "session-" \o ToString(k), cdpUrl |-> "ws://cdp", success |-> TRUE]

\* { ...session, key: value, ... }: the fields of session, those of own added
\* or written over them
Spread(session, own) ==
  [f \in DOMAIN session \cup DOMAIN own |-> IF f \in DOMAIN own THEN own[f] ELSE session[f]]

Init ==
  /\ items = [k \in 1..MaxItems |-> Session(k)]
  /\ variant \in Variants
  /\ idx = 1
  /\ results = <<>>
  /\ pc = "begin"
  /\ cfg = NoConfig
  /\ browser = "null"
  /\ proof = <<>>
  /\ selector = "" /\ confidence = 0 /\ reasoning = "" /\ alternatives = <<>>
  /\ validated = FALSE
  /\ attempts = 0 /\ chunkIx = 1 /\ candIx = 1
  /\ vals = <<>>
  /\ lastAi = "none"
  /\ conn = "none" /\ rejects = {}
  /\ calls = [k \in 1..MaxItems |-> NoCalls]
  /\ origin = NoOrigin
  /\ NoNeural

\* history: the calls to the provider (synthesis, semantic validation,
\* fallback) and the operations on the page issued for item idx
Counts(synth, sem, fb, page) ==
  calls' = [calls EXCEPT ![idx] = [synth |-> @.synth + synth, sem |-> @.sem + sem,
                                   fb |-> @.fb + fb, page |-> @.page + page]]

\* the first position of 1..n that Accept takes, or 0
FirstHit(n, Accept(_)) ==
  IF \E i \in 1..n : Accept(i)
  THEN CHOOSE i \in 1..n : Accept(i) /\ \A j \in 1..(i - 1) : ~Accept(j)
  ELSE 0

\* where the for loop over the items goes after item idx
NextItemNone == "returned"
NextItem == IF idx + 1 > Len(items) THEN "returned" ELSE "begin"

\* the fresh locals of an item
ResetLocals ==
  /\ proof' = <<>>
  /\ selector' = "" /\ confidence' = 0 /\ alternatives' = <<>> /\ validated' = FALSE
  /\ attempts' = 0 /\ chunkIx' = 1 /\ candIx' = 1 /\ vals' = <<>> /\ lastAi' = "none"
  /\ rejects' = {}

-----------------------------------------------------------------------------
(* "full": heuristic search, AI search, semantic fallback *)

\* runSemanticValidation(sel): whether the page is queried, whether the
\* provider is asked, and the result; a is what page.$(sel) finds
SemQueries(c) == c.semanticValidation
SemAsks(c, a, sel) == c.semanticValidation /\ Exists(Query(a, sel))
runSemanticValidation(c, a, sel, verdict) ==
  IF ~c.semanticValidation THEN TRUE
  ELSE IF ~Exists(Query(a, sel)) THEN FALSE
  ELSE verdict \notin {"no", "noField"}

\* if (heuristicSearch) for (const cand of candidates)
HeuristicRuns(c) == c.heuristicSearch /\ Len(c.candidates) > 0
\* if (!validated && useAI) ... while (attempt < maxAttempts && !validated)
AiRunsAfterHit(c, v, att) == c.useAI /\ att < c.maxAttempts
AiRuns(c, v, att) == ~v /\ c.useAI /\ att < c.maxAttempts
\* if (!validated && candidates.length > 0), inside the useAI block
FallbackRunsWithoutAi(c, v) == ~v /\ Len(c.candidates) > 0
FallbackRuns(c, v) == ~v /\ c.useAI /\ Len(c.candidates) > 0

AfterAiFull(c, v, att) ==
  IF AiRuns(c, v, att) THEN "ai"
  ELSE IF FallbackRuns(c, v) THEN "fallback" ELSE "emit"
AfterHeuristic(c, v) == AfterAiFull(c, v, 0)
AfterSnapshot(c) ==
  IF c.discoveryMode THEN "discovery"
  ELSE IF HeuristicRuns(c) THEN "heuristic" ELSE AfterHeuristic(c, FALSE)

\* if (count === 1)
HeuristicAcceptsAny(count) == ~count.err /\ count.n >= 1
HeuristicAccepts(count) == ~count.err /\ count.n = 1
\* confidence = isExact ? 0.98 : 0.85, in hundredths
HeuristicConfidenceFuzzy(isExact) == 85
HeuristicConfidenceExact(isExact) == 98
HeuristicConfidence(isExact) == IF isExact THEN 98 ELSE 85

\* the parameters are read, the browser is connected to and the candidates
\* are collected; a failure lands in the catch of the item's try
BeginFull ==
  /\ variant = "full" /\ pc = "begin"
  /\ \E c \in ItemConfigs("full"), how \in FullOutcomes :
       /\ how = "ok" \/ c.candidates = <<>>
       /\ conn' = how
       /\ cfg' = c
       /\ browser' = BrowserAfter(how)
       /\ reasoning' = IF how = "ok" THEN "" ELSE "Execution Error"
       /\ origin' = IF how = "ok" THEN NoOrigin
                    ELSE Assigned(NoOrigin, {"reasoning"}, Outcome("catch", 0, 0))
       /\ pc' = IF how = "ok" THEN AfterSnapshot(c) ELSE "emit"
       /\ Counts(0, 0, 0, IF how \in {"ok", "evaluateThrows"} THEN 1 ELSE 0)
  /\ ResetLocals
  /\ UNCHANGED <<items, neural, variant, idx, results>>

\* if (discoveryMode) { results.push(...); if (browser) await browser.close(); continue; }
\* the continue leaves the try, whose finally runs `if (browser) await
\* browser.close()` on the same handle
DiscoveryFull ==
  /\ variant = "full" /\ pc = "discovery"
  /\ UNCHANGED <<conn, rejects>>
  /\ results' = Append(results, Spread(items[idx], [discoveryResults |-> Len(cfg.candidates)]))
  /\ browser' = "closedTwice"
  /\ idx' = idx + 1
  /\ pc' = NextItem
  /\ UNCHANGED <<items, neural, origin, variant, cfg, lastAi, proof, selector, confidence, reasoning, alternatives,
                 validated, attempts, chunkIx, candIx, vals, calls>>

\* one iteration of `for (const cand of candidates)`
HeuristicStep ==
  /\ variant = "full" /\ pc = "heuristic"
  /\ UNCHANGED conn
  /\ LET cand == cfg.candidates[candIx]
         isExact == IsExact(cand, cfg.description)
         isFuzzy == IsFuzzy(cand, cfg.description)
         sel == constructRobustSelector(cand, candIx - 1)
         more == IF candIx < Len(cfg.candidates) THEN "heuristic"
                 ELSE AfterHeuristic(cfg, FALSE)
     IN  IF ~(isExact \/ isFuzzy)
         THEN /\ pc' = more
              /\ candIx' = candIx + 1
              /\ rejects' = {}
              /\ UNCHANGED <<proof, selector, confidence, reasoning, validated, calls, origin>>
         ELSE \E a1 \in Answers("full"), a2 \in Answers("full"), verdict \in Verdicts :
                LET count == NativeQuery(a1, sel)
                    unique == HeuristicAccepts(count)
                    ok == unique /\ runSemanticValidation(cfg, a2, sel, verdict)
                IN  /\ a1 = count
                    /\ rejects' = IF ok THEN {} ELSE {count}
                    /\ (unique /\ SemQueries(cfg)) \/ a2 = NoElement
                    /\ (unique /\ SemAsks(cfg, a2, sel)) \/ verdict = "yes"
                    /\ Counts(0, IF unique /\ SemAsks(cfg, a2, sel) THEN 1 ELSE 0, 0,
                              1 + (IF unique /\ SemQueries(cfg) THEN 1 ELSE 0))
                    /\ IF count.err
                       THEN /\ reasoning' = "Execution Error"
                            /\ origin' = Assigned(origin, {"reasoning"}, Outcome("catch", 0, 0))
                            /\ pc' = "emit"
                            /\ UNCHANGED <<proof, selector, confidence, validated, candIx>>
                       ELSE IF ok
                       THEN /\ selector' = sel
                            /\ validated' = TRUE
                            /\ proof' = <<count>>
                            /\ confidence' = HeuristicConfidence(isExact)
                            /\ reasoning' = IF isExact THEN "Heuristic match (exact)"
                                            ELSE "Heuristic match (fuzzy)"
                            /\ origin' = Assigned(origin, {"selector", "confidence", "reasoning"},
                                                  Outcome("heuristic", 0, candIx))
                            /\ pc' = AfterHeuristic(cfg, TRUE)
                            /\ UNCHANGED candIx
                       ELSE /\ pc' = more
                            /\ candIx' = candIx + 1
                            /\ UNCHANGED <<proof, selector, confidence, reasoning, validated,
                                           origin>>
  /\ UNCHANGED <<items, neural, variant, idx, results, cfg, browser, alternatives, attempts, chunkIx, vals, lastAi>>

\* for (const sel of [selector, ...alternatives]) { if (!sel) continue;
\*   if (await runSemanticValidation(sel)) { selector = sel; validated = true; break; } }
AcceptsFullNoSkip(c, a, sel, verdict) == runSemanticValidation(c, a, sel, verdict)
AcceptsFull(c, a, sel, verdict) == ~Falsy(sel) /\ runSemanticValidation(c, a, sel, verdict)

\* one iteration of `while (attempt < maxAttempts && !validated)`
AIAttemptFull ==
  /\ variant = "full" /\ pc = "ai"
  /\ UNCHANGED <<conn, rejects>>
  /\ attempts' = attempts + 1
  /\ \E resp \in Responses :
       /\ lastAi' = resp.kind
       /\ IF resp.kind # "json"
          THEN /\ reasoning' = "AI Error"
               /\ origin' = Assigned(origin, {"reasoning"}, Outcome("ai", chunkIx, attempts + 1))
               /\ Counts(1, 0, 0, 0)
               /\ pc' = AfterAiFull(cfg, validated, attempts')
               /\ UNCHANGED <<proof, selector, confidence, alternatives, validated>>
          ELSE LET sels == <<resp.selector>> \o resp.alternatives
               IN  \E as \in [1..Len(sels) -> Answers("full")],
                      vd \in [1..Len(sels) -> Verdicts] :
                     LET Accept(i) == AcceptsFull(cfg, as[i], sels[i], vd[i])
                         hit == FirstHit(Len(sels), Accept)
                         tried == {i \in 1..Len(sels) :
                                     ~Falsy(sels[i]) /\ (hit = 0 \/ i <= hit)}
                         queried == {i \in tried : SemQueries(cfg)}
                         asked == {i \in tried : SemAsks(cfg, as[i], sels[i])}
                     IN  /\ \A i \in 1..Len(sels) :
                              /\ i \in queried \/ as[i] = NoElement
                              /\ i \in asked \/ vd[i] = "yes"
                         /\ selector' = IF hit > 0 THEN sels[hit] ELSE resp.selector
                         /\ confidence' = resp.confidence
                         /\ reasoning' = "ai"
                         /\ origin' = Assigned(origin, Locals, Outcome("ai", chunkIx, attempts + 1))
                         /\ alternatives' = resp.alternatives
                         /\ validated' = (hit > 0)
                         /\ proof' = IF hit > 0 /\ hit \in queried THEN <<as[hit]>> ELSE <<>>
                         /\ Counts(1, Cardinality(asked), 0, Cardinality(queried))
                         /\ pc' = AfterAiFull(cfg, validated', attempts')
  /\ UNCHANGED <<items, neural, variant, idx, results, cfg, browser, chunkIx, candIx, vals>>

\* the semantic fallback: the provider picks a candidate by index
FallbackFull ==
  /\ variant = "full" /\ pc = "fallback"
  /\ UNCHANGED <<conn, rejects>>
  /\ \E kind \in FbKinds, index \in 0..Len(cfg.candidates), a \in Answers("full") :
       LET inRange == kind = "index" /\ index < Len(cfg.candidates)
           sel == constructRobustSelector(cfg.candidates[index + 1], index)
       IN  /\ kind = "index" \/ index = 0
           /\ inRange \/ a = NoElement
           /\ Counts(0, 0, 1, IF inRange THEN 1 ELSE 0)
           /\ IF inRange /\ Exists(Query(a, sel))
              THEN /\ selector' = sel
                   /\ validated' = TRUE
                   /\ proof' = <<Query(a, sel)>>
                   /\ reasoning' = "Semantic match"
                   /\ origin' = Assigned(origin, {"selector", "reasoning"},
                                         Outcome("fallback", 0, 0))
              ELSE UNCHANGED <<selector, validated, proof, reasoning, origin>>
  /\ pc' = "emit"
  /\ UNCHANGED <<items, neural, variant, lastAi, idx, results, cfg, browser, confidence, alternatives,
                 attempts, chunkIx, candIx, vals>>

\* finally { if (browser) await browser.close(); }  results.push(...)
EmitFull ==
  /\ variant = "full" /\ pc = "emit"
  /\ UNCHANGED <<conn, rejects>>
  /\ browser' = IF browser = "open" THEN "closed" ELSE browser
  /\ results' = Append(results, Spread(items[idx],
       [elementDescription |-> cfg.description, selector |-> selector,
        confidence |-> confidence, reasoning |-> reasoning, validated |-> validated]))
  /\ idx' = idx + 1
  /\ pc' = NextItem
  /\ UNCHANGED <<items, neural, origin, variant, cfg, lastAi, proof, selector, confidence, reasoning, alternatives,
                 validated, attempts, chunkIx, candIx, vals, calls>>

-----------------------------------------------------------------------------
(* The chunk / attempt loops of the AI-only variants *)

\* for (let start = 0; start < html.length; start += chunkSize) chunks.push(...)
SliceCount(len) == (len + chunkSize - 1) \div chunkSize

\* relevant.length > maxLength ? relevant.slice(0, maxLength) : relevant
Truncated(len, maxLength) == IF len > maxLength THEN maxLength ELSE len

\* node, nodefb: getRelevantHTMLByType before it cuts: the elements of the
\* type, joined; if (!relevant) relevant = html
RelevantLen(c) ==
  IF c.elementType = "*" \/ c.typedLen = 0 THEN c.htmlLen ELSE c.typedLen

\* p5: filterHtmlByType: elements.join('\n'), elements = [html] for '*'
FilteredLen(c) == IF c.elementType = "*" THEN c.htmlLen ELSE c.typedLen

Chunks(v, c) ==
  CASE v \in {"node", "nodefb"} -> SliceCount(Truncated(RelevantLen(c), chunkSize))
    [] v = "chunked" -> SliceCount(c.htmlLen)
    [] v = "p5" -> SliceCount(FilteredLen(c))
    [] OTHER -> 1

\* the condition under which the attempt loop stops for good
\*   node, chunked: while (attempts < maxAttempts && !validated) ... if (validated) break
\*   p5:            if (validatedResults.length > 0) break
\*   new:           while (attempt < maxAttempts && suggestions.length === 0)
LoopStopsAtOnce(v, isValidated, list) == TRUE
LoopNeverStops(v, isValidated, list) == FALSE
LoopStops(v, isValidated, list) ==
  CASE v \in {"node", "chunked", "nodefb"} -> isValidated
    [] v \in {"p5", "new"} -> Len(list) > 0
    [] OTHER -> TRUE

\* where the loops stand after an attempt: the same chunk again, the next
\* chunk with the attempts counted from 0, or past the loops
AfterAttempt(v, c, isValidated, list, att, ck) ==
  IF LoopStops(v, isValidated, list) THEN [pc |-> "emit", attempts |-> att, chunkIx |-> ck]
  ELSE IF att < c.maxAttempts THEN [pc |-> "ai", attempts |-> att, chunkIx |-> ck]
  ELSE IF ck < Chunks(v, c) THEN [pc |-> "ai", attempts |-> 0, chunkIx |-> ck + 1]
  ELSE [pc |-> "emit", attempts |-> att, chunkIx |-> ck]

\* nodefb: if (!validated && page), after the loops
FallbackRunsNodeFb(v, isValidated) == v = "nodefb" /\ ~isValidated

Loop(v, isValidated, list) ==
  LET to == AfterAttempt(v, cfg, isValidated, list, attempts + 1, chunkIx)
  IN  /\ pc' = IF to.pc = "emit" /\ FallbackRunsNodeFb(v, isValidated) THEN "fallback"
               ELSE to.pc
      /\ attempts' = to.attempts /\ chunkIx' = to.chunkIx

\* await axios.post(apiUrl, body, { headers }): no timeout is passed and
\* axios has none of its own, so when the provider never answers the await of
\* a synthesis call never returns and execute stays at it
ProviderNeverAnswers ==
  /\ variant \in Variants /\ pc = "ai"
  /\ pc' = "waiting"
  /\ lastAi' = "never"
  /\ attempts' = attempts + 1
  /\ Counts(1, 0, 0, 0)
  /\ UNCHANGED <<items, neural, origin, variant, idx, results, cfg, browser, proof, selector, confidence,
                 reasoning, alternatives, validated, chunkIx, candIx, vals, conn, rejects>>

\* where a failure to connect or to read the page leads: p5 catches it in
\* the item's try, the others let it leave execute
AfterConnectFailureEmits(v) == "emit"
AfterConnectFailure(v) == IF v = "p5" THEN "error" ELSE "thrown"

\* node, chunked, nodefb: connect and read the page; on a failure the browser
\* is closed and execute throws
\* p5: the same inside the item's try, whose catch pushes an error result
\* new: connectBrowser() before the try, page.content() inside it
BeginAiOnly ==
  /\ variant \in {"node", "chunked", "p5", "new", "nodefb"} /\ pc = "begin"
  /\ \E c \in ItemConfigs(variant), how \in ConnOutcomes :
       /\ conn' = how
       /\ cfg' = c
       /\ browser' = IF variant \in {"node", "chunked", "nodefb"} /\ how = "loadThrows"
                     THEN "closed" ELSE BrowserAfter(how)
       /\ pc' = IF how = "ok" THEN (IF Chunks(variant, c) > 0 THEN "ai" ELSE "emit")
                ELSE AfterConnectFailure(variant)
       /\ Counts(0, 0, 0, IF how = "ok" THEN 1 ELSE 0)
  /\ reasoning' = ""
  /\ origin' = NoOrigin
  /\ ResetLocals
  /\ UNCHANGED <<items, neural, variant, idx, results>>

\* selector = parsed.selector || ''
OrEmpty(sel) == IF Falsy(sel) THEN "" ELSE sel

\* node: if (!sel || !page) continue; const elementHandle = await page.$(sel);
\*       if (elementHandle) { ... if (typeMatches) { selector = sel; validated = true; break; } }
AcceptsNodeAnyType(c, a, sel) == ~Falsy(sel) /\ Exists(Query(a, sel))
AcceptsNode(c, a, sel) ==
  /\ ~Falsy(sel)
  /\ Exists(Query(a, sel))
  /\ TypeMatches(c.elementType, Query(a, sel).tag, Query(a, sel).typ)

AIAttemptNode ==
  /\ variant \in {"node", "nodefb"} /\ pc = "ai"
  /\ UNCHANGED conn
  /\ \E resp \in Responses :
       /\ lastAi' = resp.kind
       /\ IF resp.kind # "json"
          THEN /\ reasoning' = "AI Error"
               /\ origin' = Assigned(origin, {"reasoning"}, Outcome("ai", chunkIx, attempts + 1))
               /\ Counts(1, 0, 0, 0)
               /\ Loop(variant, validated, <<>>)
               /\ rejects' = {}
               /\ UNCHANGED <<proof, selector, confidence, alternatives, validated>>
          ELSE LET sels == <<OrEmpty(resp.selector)>> \o resp.alternatives
               IN  \E as \in [1..Len(sels) -> Answers(variant)] :
                     LET Accept(i) == AcceptsNode(cfg, as[i], sels[i])
                         hit == FirstHit(Len(sels), Accept)
                         tried == {i \in 1..Len(sels) :
                                     ~Falsy(sels[i]) /\ (hit = 0 \/ i <= hit)}
                     IN  /\ \A i \in 1..Len(sels) : i \in tried \/ as[i] = NoElement
                         /\ selector' = IF hit > 0 THEN sels[hit] ELSE sels[1]
                         /\ confidence' = resp.confidence
                         /\ reasoning' = "ai"
                         /\ origin' = Assigned(origin, Locals, Outcome("ai", chunkIx, attempts + 1))
                         /\ alternatives' = resp.alternatives
                         /\ validated' = (hit > 0)
                         /\ proof' = IF hit > 0 THEN <<as[hit]>> ELSE <<>>
                         /\ rejects' = {as[i] : i \in tried \ {hit}}
                         /\ Counts(1, 0, 0, Cardinality(tried))
                         /\ Loop(variant, validated', <<>>)
  /\ UNCHANGED <<items, neural, variant, idx, results, cfg, browser, candIx, vals>>

\* chunked: try { await page.waitForSelector(sel, { timeout: 3000 }); selector = sel; ...
\*          validated = true; break; } catch { validated = false; }
AcceptsChunked(a, sel) == Exists(Query(a, sel))

AIAttemptChunked ==
  /\ variant = "chunked" /\ pc = "ai"
  /\ UNCHANGED <<conn, rejects>>
  /\ \E resp \in Responses :
       /\ lastAi' = resp.kind
       /\ IF resp.kind # "json"
          THEN /\ reasoning' = "AI Error"
               /\ origin' = Assigned(origin, {"reasoning"}, Outcome("ai", chunkIx, attempts + 1))
               /\ Counts(1, 0, 0, 0)
               /\ Loop("chunked", validated, <<>>)
               /\ UNCHANGED <<proof, selector, confidence, alternatives, validated>>
          ELSE LET sels == <<resp.selector>> \o resp.alternatives
               IN  \E as \in [1..Len(sels) -> Answers("chunked")] :
                     LET Accept(i) == AcceptsChunked(as[i], sels[i])
                         hit == FirstHit(Len(sels), Accept)
                         tried == {i \in 1..Len(sels) : hit = 0 \/ i <= hit}
                     IN  /\ \A i \in 1..Len(sels) :
                              (i \in tried /\ ~Falsy(sels[i])) \/ as[i] = NoElement
                         /\ IF hit > 0
                            THEN /\ selector' = sels[hit]
                                 /\ confidence' = resp.confidence
                                 /\ reasoning' = "ai"
                                 /\ origin' = Assigned(origin, Locals,
                                                       Outcome("ai", chunkIx, attempts + 1))
                                 /\ alternatives' = resp.alternatives
                                 /\ proof' = <<as[hit]>>
                            ELSE UNCHANGED <<selector, confidence, reasoning, alternatives, proof,
                                             origin>>
                         /\ validated' = (hit > 0)
                         /\ Counts(1, 0, 0, Cardinality(tried))
                         /\ Loop("chunked", validated', <<>>)
  /\ UNCHANGED <<items, neural, variant, idx, results, cfg, browser, candIx, vals>>

\* nodefb: what the last-resort fallback runs into: page.evaluate throws, no
\* element of the type is on the page, the provider call throws, its text is
\* no JSON, the JSON has no index, a negative index, an index
FbNodeKinds ==
  {"evaluateThrows", "noElements", "throws", "malformed", "noIndex", "negative", "index"}

\* selector = `${elementType}:nth-of-type(${targetIndex + 1})`;
\* if (elementType === '*') selector = `*:nth-child(${targetIndex + 1})`
IndexSelector(elementType, targetIndex) ==
  IF elementType = "*" THEN "*:nth-child(" \o ToString(targetIndex + 1) \o ")"
  ELSE elementType \o ":nth-of-type(" \o ToString(targetIndex + 1) \o ")"

\* nodefb: the "last resort" semantic fallback after the loops
FallbackNodeFb ==
  /\ variant = "nodefb" /\ pc = "fallback"
  /\ \E kind \in FbNodeKinds, targetIndex \in 0..1, a \in Answers("nodefb") :
       LET sel == IndexSelector(cfg.elementType, targetIndex)
           asked == kind \notin {"evaluateThrows", "noElements"}
       IN  /\ kind = "index" \/ (targetIndex = 0 /\ a = NoElement)
           /\ Counts(0, 0, IF asked THEN 1 ELSE 0, 1 + (IF kind = "index" THEN 1 ELSE 0))
           /\ selector' = IF kind = "index" THEN sel ELSE selector
           /\ validated' = (kind = "index" /\ Exists(Query(a, sel)))
           /\ proof' = IF validated' THEN <<Query(a, sel)>> ELSE proof
           /\ reasoning' = IF validated' THEN "Semantic match"
                           ELSE IF kind \in {"evaluateThrows", "throws", "malformed"}
                                   \/ (kind = "index" /\ Query(a, sel).err)
                                THEN "Semantic fallback failed"
                                ELSE "Attempting semantic fallback"
           /\ origin' = Assigned(origin,
                                 IF kind = "index" THEN {"selector", "reasoning"}
                                 ELSE {"reasoning"},
                                 Outcome("fallback", 0, 0))
  /\ pc' = "emit"
  /\ UNCHANGED <<items, neural, variant, idx, results, cfg, browser, confidence, alternatives, attempts,
                 chunkIx, candIx, vals, lastAi, conn, rejects>>

\* the attempts field of the result: node, nodefb `attempts`, chunked
\* `attempts: maxAttempts`
ResultAttemptsNone(v, c, att) == 0
ResultAttempts(v, c, att) == IF v = "chunked" THEN c.maxAttempts ELSE att

\* if (browser) await browser.close();  results.push(...)
EmitNode ==
  /\ variant \in {"node", "chunked", "nodefb"} /\ pc = "emit"
  /\ UNCHANGED <<conn, rejects>>
  /\ browser' = IF browser = "open" THEN "closed" ELSE browser
  /\ results' = Append(results, Spread(items[idx],
       [elementDescription |-> cfg.description,
        selector |-> selector, confidence |-> confidence, reasoning |-> reasoning,
        attempts |-> ResultAttempts(variant, cfg, attempts),
        alternatives |-> alternatives, validated |-> validated]))
  /\ idx' = idx + 1
  /\ pc' = NextItem
  /\ UNCHANGED <<items, neural, origin, variant, cfg, lastAi, proof, selector, confidence, reasoning, alternatives,
                 validated, attempts, chunkIx, candIx, vals, calls>>

-----------------------------------------------------------------------------
(* Ranked suggestion lists: "p5" (validatedResults) and "new" (suggestions) *)

\* an entry of validatedResults / suggestions; `seen` is history: what the
\* page answered for the entry's selector
Entry(sel, conf, why, isValidated, a) ==
  [selector |-> sel, confidence |-> conf, reasoning |-> why, validated |-> isValidated,
   seen |-> a]

\* the comparator: validated first, then the higher confidence
BeforeByConfidence(x, y) == x.confidence > y.confidence
Before(x, y) ==
  \/ x.validated /\ ~y.validated
  \/ x.validated = y.validated /\ x.confidence > y.confidence

\* Array.prototype.sort with that comparator (stable)
RECURSIVE Insert(_, _)
Insert(sorted, x) ==
  IF sorted = <<>> THEN <<x>>
  ELSE IF Before(x, Head(sorted)) THEN <<x>> \o sorted
  ELSE <<Head(sorted)>> \o Insert(Tail(sorted), x)
RECURSIVE sortSuggestions(_)
sortSuggestions(arr) ==
  IF arr = <<>> THEN <<>>
  ELSE Insert(sortSuggestions(SubSeq(arr, 1, Len(arr) - 1)), arr[Len(arr)])

\* p5: const handle = await page.$(sel); if (handle) { ... validatedResults.push(
\*       { selector: sel, confidence, reasoning, validated: typeMatches }) }
PushedP5(e) == ~Falsy(e.selector) /\ Exists(Query(e.seen[1], e.selector))
EntryP5(c, resp, sel, a) ==
  Entry(sel, resp.confidence, "ai", TypeMatches(c.elementType, a.tag, a.typ), <<a>>)

AIAttemptP5 ==
  /\ variant = "p5" /\ pc = "ai"
  /\ UNCHANGED <<conn, rejects>>
  /\ \E resp \in Responses :
       /\ lastAi' = resp.kind
       /\ IF resp.kind = "throws"
          THEN /\ pc' = "error"
               /\ attempts' = attempts + 1
               /\ Counts(1, 0, 0, 0)
               /\ UNCHANGED <<vals, chunkIx>>
          ELSE LET sels == IF resp.kind = "json"
                           THEN <<resp.selector>> \o resp.alternatives ELSE <<Undefined>>
               IN  \E as \in [1..Len(sels) -> Answers("p5")] :
                     LET found == SelectSeq([i \in 1..Len(sels) |->
                                               EntryP5(cfg, resp, sels[i], as[i])], PushedP5)
                     IN  /\ \A i \in 1..Len(sels) : ~Falsy(sels[i]) \/ as[i] = NoElement
                         /\ vals' = vals \o found
                         /\ Counts(1, 0, 0, Cardinality({i \in 1..Len(sels) : ~Falsy(sels[i])}))
                         /\ Loop("p5", FALSE, vals')
  /\ UNCHANGED <<items, neural, origin, variant, idx, results, cfg, browser, proof, selector, confidence,
                 reasoning, alternatives, validated, candIx>>

\* const best = validatedResults[0] || { selector: '', confidence: 0, ..., validated: false }
Best(list) ==
  IF list = <<>> THEN Entry("", 0, "No valid selector found", FALSE, <<>>)
  ELSE sortSuggestions(list)[1]

\* the item's result is pushed, from the try or from its catch; finally closes
EmitP5 ==
  /\ variant = "p5" /\ pc \in {"emit", "error"}
  /\ UNCHANGED <<conn, rejects>>
  /\ browser' = IF browser = "open" THEN "closed" ELSE browser
  /\ results' = Append(results, Spread(items[idx],
       IF pc = "error"
       THEN [elementDescription |-> cfg.description, success |-> FALSE, error |-> "err.message"]
       ELSE [elementDescription |-> cfg.description,
             success |-> Best(vals).validated, finalSelector |-> Best(vals).selector,
             confidence |-> Best(vals).confidence, reasoning |-> Best(vals).reasoning,
             attempts |-> attempts, validated |-> Best(vals).validated]))
  /\ idx' = idx + 1
  /\ pc' = NextItem
  /\ UNCHANGED <<items, neural, origin, variant, cfg, lastAi, proof, selector, confidence, reasoning, alternatives,
                 validated, attempts, chunkIx, candIx, vals, calls>>

\* new: what callAIProvider brings back: axios throws, the text is no JSON
\* (safeJsonParse falls back to no suggestions), the JSON has no suggestions
\* array, or it has one
NewResponse(kind, list) == [kind |-> kind, suggestions |-> list]
Suggestion(sel, conf) == [selector |-> sel, confidence |-> conf]
NewResponses ==
  { NewResponse("throws", <<>>), NewResponse("malformed", <<>>),
    NewResponse("noField", <<>>), NewResponse("json", <<>>),
    NewResponse("json", <<Suggestion("", 90)>>),
    NewResponse("json", <<Suggestion("#a", 90)>>),
    NewResponse("json", <<Suggestion("#a", 50), Suggestion("#b", 90)>>) }

\* validateSelector: try { return !!(await page.$(selector)); } catch { return false; }
validateSelector(a, sel) == Exists(Query(a, sel))

AiFailed == Entry("", 0, "AI failed", FALSE, <<>>)

AIAttemptNew ==
  /\ variant = "new" /\ pc = "ai"
  /\ UNCHANGED <<conn, rejects>>
  /\ \E resp \in NewResponses :
       /\ lastAi' = resp.kind
       /\ IF resp.kind \in {"throws", "noField"}
          THEN /\ vals' = <<AiFailed>>
               /\ Counts(1, 0, 0, 0)
               /\ Loop("new", FALSE, vals')
          ELSE LET n == Len(resp.suggestions)
               IN  \E as \in [1..n -> Answers("new")] :
                     /\ \A i \in 1..n : ~Falsy(resp.suggestions[i].selector) \/ as[i] = NoElement
                     /\ vals' = sortSuggestions(
                          [i \in 1..n |->
                             Entry(resp.suggestions[i].selector, resp.suggestions[i].confidence,
                                   "ai", validateSelector(as[i], resp.suggestions[i].selector),
                                   <<as[i]>>)])
                     /\ Counts(1, 0, 0, n)
                     /\ Loop("new", FALSE, vals')
  /\ UNCHANGED <<items, neural, origin, variant, idx, results, cfg, browser, proof, selector, confidence,
                 reasoning, alternatives, validated, candIx>>

\* results.push({ description, ...suggestions[0] });  finally closes
EmitNew ==
  /\ variant = "new" /\ pc = "emit"
  /\ UNCHANGED <<conn, rejects>>
  /\ browser' = "closed"
  /\ results' = Append(results,
       IF vals = <<>> THEN [description |-> cfg.description]
       ELSE [description |-> cfg.description, selector |-> vals[1].selector,
             confidence |-> vals[1].confidence, reasoning |-> vals[1].reasoning,
             validated |-> vals[1].validated])
  /\ idx' = idx + 1
  /\ pc' = NextItem
  /\ UNCHANGED <<items, neural, origin, variant, cfg, lastAi, proof, selector, confidence, reasoning, alternatives,
                 validated, attempts, chunkIx, candIx, vals, calls>>

-----------------------------------------------------------------------------

Next ==
  \/ BeginFull
  \/ DiscoveryFull
  \/ HeuristicStep
  \/ AIAttemptFull
  \/ FallbackFull
  \/ EmitFull
  \/ ProviderNeverAnswers
  \/ BeginAiOnly
  \/ AIAttemptNode
  \/ AIAttemptChunked
  \/ FallbackNodeFb
  \/ EmitNode
  \/ AIAttemptP5
  \/ EmitP5
  \/ AIAttemptNew
  \/ EmitNew

Spec == Init /\ [][Next]_vars

\* execute runs on one thread, so the next step of the chunk / attempt loops
\* is taken when there is one
FairSpec == Spec /\ WF_vars(BeginAiOnly \/ AIAttemptNode \/ AIAttemptChunked \/ EmitNode)

-----------------------------------------------------------------------------
(* Properties.  A result of the model holds the fields of findElementResult *)
(* next to the item's own fields.  At pc = "emit" the locals are what the   *)
(* item's result is built from; proof is what the page answered for the     *)
(* selector when validated was set.                                         *)

\* the selector field of a pushed result
ResultSelector(r) == IF "finalSelector" \in DOMAIN r THEN r.finalSelector ELSE r.selector

\* the synthesis loop of the item ran every attempt on every chunk and no
\* selector validated
Exhausted ==
  /\ pc = "emit" /\ ~validated
  /\ calls[idx].synth > 0
  /\ calls[idx].synth = Chunks(variant, cfg) * cfg.maxAttempts

\* C1: a result with validated = TRUE carries a selector that, queried on the
\* page when it was validated, matched exactly one element, and that element's
\* tag / type satisfies the requested element type; this for every strategy
\* (heuristic, AI, semantic fallback)
C1_ValidatedIsUniqueTypedMatch ==
  (variant \in {"full", "node"} /\ pc = "emit" /\ validated) =>
     /\ Len(proof) = 1
     /\ ~proof[1].err /\ proof[1].n = 1
     /\ TypeMatches(cfg.elementType, proof[1].tag, proof[1].typ)

\* C3: when the synthesis loop is exhausted without a validated selector the
\* result has validated = FALSE and an empty selector: no selector the
\* provider proposed and the page did not confirm is left in it
C3_ExhaustedResultHasNoSelector ==
  (variant \in {"full", "node"} /\ Exhausted) => (~validated /\ Falsy(selector))

\* C4: in every variant a pushed result whose selector is empty or missing has
\* validated = FALSE
C4_EmptySelectorNotValidated ==
  \A k \in 1..Len(results) :
     ("validated" \in DOMAIN results[k] /\ Falsy(ResultSelector(results[k])))
        => ~results[k].validated

\* C4's case: the provider answered with JSON, and the result pushed for the
\* item has an empty selector
C4_Witness ==
  \E k \in 1..Len(results) :
     /\ "validated" \in DOMAIN results[k]
     /\ Falsy(ResultSelector(results[k]))
     /\ calls[k].synth > 0 /\ lastAi = "json"

\* C5: a selector of the AI path is accepted as validated only if the page
\* has at least one element matching it, and that element has the required
\* tag / type, with semanticValidation enabled or not
C5_AiAcceptanceNeedsTypedMatch ==
  (variant = "full" /\ validated /\ reasoning = "ai") =>
     /\ Len(proof) = 1
     /\ Exists(proof[1])
     /\ TypeMatches(cfg.elementType, proof[1].tag, proof[1].typ)

\* the order of the strategies of "full"
Rank(p) ==
  CASE p = "heuristic" -> 1 [] p = "ai" -> 2 [] p = "fallback" -> 3
    [] p = "emit" -> 4 [] OTHER -> 5

\* C2: per item the strategies run in the order heuristic, AI synthesis,
\* semantic fallback, done, and never go back: a synthesis call is issued only
\* when the heuristic pass over the candidates has ended without a validated
\* selector, a fallback call only when every synthesis attempt has been made
\* without one, and once the item's result is being pushed neither the
\* provider nor the page is called for it any more
C2_StrategyOrder ==
  [][variant = "full" =>
       /\ pc \in {"heuristic", "ai", "fallback"} => Rank(pc') >= Rank(pc)
       /\ calls'[idx].synth > calls[idx].synth =>
            /\ ~validated
            /\ HeuristicRuns(cfg) => candIx > Len(cfg.candidates)
            /\ calls[idx].fb = 0
       /\ calls'[idx].fb > calls[idx].fb =>
            /\ ~validated
            /\ calls[idx].synth = cfg.maxAttempts
       /\ calls' # calls =>
            /\ pc \notin {"emit", "discovery", "returned"}
            /\ Len(results) = idx - 1
            /\ \A k \in 1..MaxItems : k # idx => calls'[k] = calls[k]
    ]_vars

\* C2's case: the heuristic pass queried the page and accepted nothing, every
\* synthesis attempt was made, and then the fallback was asked
C2_Witness ==
  /\ variant = "full" /\ pc = "emit"
  /\ HeuristicRuns(cfg) /\ candIx > Len(cfg.candidates) /\ calls[idx].page > 1
  /\ calls[idx].synth = cfg.maxAttempts
  /\ calls[idx].fb = 1

\* C6: a synthesis response that is not parseable JSON is never fatal: the
\* attempt is counted, the loop goes on while attempts or chunks remain, and
\* the item ends with a pushed result
C6_MalformedResponseIsOneFailedAttempt ==
  /\ [][(variant \in {"node", "chunked"} /\ pc = "ai" /\ lastAi' = "malformed") =>
          /\ calls'[idx].synth = calls[idx].synth + 1
          /\ ~validated'
          /\ IF attempts + 1 < cfg.maxAttempts
             THEN pc' = "ai" /\ attempts' = attempts + 1 /\ chunkIx' = chunkIx
             ELSE IF chunkIx < Chunks(variant, cfg)
             THEN pc' = "ai" /\ attempts' = 0 /\ chunkIx' = chunkIx + 1
             ELSE pc' = "emit" /\ attempts' = cfg.maxAttempts
       ]_vars
  /\ []((variant \in {"node", "chunked"} /\ pc = "returned") => Len(results) = MaxItems)

\* C6's case: an unparseable response has been counted and the loop is about
\* to make the next attempt
C6_Witness ==
  /\ variant \in {"node", "chunked"} /\ pc = "ai"
  /\ lastAi = "malformed" /\ attempts = 1 /\ calls[idx].synth = 1

\* C7: a synthesis call that throws on an attempt before the last one is one
\* failed attempt: the resolution does not end and a further attempt is made
C7_ProviderThrowIsOneFailedAttempt ==
  [][(variant \in {"p5", "new"} /\ pc = "ai" /\ lastAi' = "throws"
        /\ attempts + 1 < cfg.maxAttempts)
      => pc' = "ai"]_vars

\* C8: the loop ends early only on a validated selector: when an attempt
\* leaves suggestions none of which is validated, and attempts or chunks
\* remain, a further attempt is made
C8_UnvalidatedSuggestionsKeepLoopGoing ==
  [][(variant \in {"p5", "new"} /\ pc = "ai" /\ lastAi' = "json"
        /\ Len(vals') > 0 /\ (\A i \in 1..Len(vals') : ~vals'[i].validated)
        /\ (attempts + 1 < cfg.maxAttempts \/ chunkIx < Chunks(variant, cfg)))
      => pc' = "ai"]_vars

\* C9: once a selector has validated no further synthesis call is issued for
\* the item, the synthesis calls of an item number at most chunks times
\* maxAttempts, and execute comes to an end when every provider call returns
\* or throws
C9_SynthesisLoopBounded ==
  /\ []((variant \in {"node", "chunked"} /\ idx <= MaxItems) =>
          calls[idx].synth <= Chunks(variant, cfg) * cfg.maxAttempts)
  /\ [][(variant \in {"node", "chunked"} /\ validated) =>
          calls'[idx].synth = calls[idx].synth]_vars
  /\ variant \in {"node", "chunked"} => <>(pc \in {"returned", "thrown"} \/ lastAi = "never")

\* C9's case: a selector validated before the attempts ran out and the item's
\* result was pushed
C9_Witness ==
  /\ variant \in {"node", "chunked"} /\ pc = "returned"
  /\ results[1].validated
  /\ calls[1].synth < Chunks(variant, cfg) * cfg.maxAttempts

\* the candidates whose id equals the lowercased description
ExactIds(c) ==
  {k \in 1..Len(c.candidates) : toLowerCase(c.candidates[k].id) = toLowerCase(c.description)}

\* C10: when a candidate's id equals the lowercased description (the page is
\* reached and heuristic search is on), the heuristic matcher selects it with
\* confidence 0.98 and the result is produced without any call to the
\* provider: no synthesis, no semantic validation, no fallback
C10_ExactIdHitWithoutProvider ==
  (variant = "full" /\ pc = "emit" /\ cfg.heuristicSearch
     /\ reasoning # "Execution Error" /\ ExactIds(cfg) # {})
  => /\ validated
     /\ \E k \in ExactIds(cfg) : selector = "#" \o cfg.candidates[k].id
     /\ confidence = 98
     /\ calls[idx] = [NoCalls EXCEPT !.page = calls[idx].page]

\* the heuristic matcher accepted the candidate at candIx
HeuristicHit ==
  /\ variant = "full" /\ pc = "emit" /\ validated
  /\ reasoning \in {"Heuristic match (exact)", "Heuristic match (fuzzy)"}

\* C10, as the code has it: when the candidate the heuristic matcher accepts
\* has an id equal to the lowercased description, the result carries the
\* selector #id with confidence 0.98 and no synthesis call and no fallback
\* call is made; semantic-validation calls are made exactly when
\* semanticValidation is on
C10_ExactIdHit ==
  (HeuristicHit /\ candIx \in ExactIds(cfg))
  => /\ selector = "#" \o cfg.candidates[candIx].id
     /\ confidence = 98
     /\ calls[idx].synth = 0 /\ calls[idx].fb = 0
     /\ (calls[idx].sem > 0) = cfg.semanticValidation

\* C10's case: such a hit with semantic validation on, which asked the provider
C10_Witness ==
  /\ HeuristicHit /\ candIx \in ExactIds(cfg)
  /\ cfg.semanticValidation /\ calls[idx].sem = 1

\* C11: for the description "submit button" and a page whose only candidate
\* is a button with id "submitBtn" and text "Submit", the heuristic phase
\* matches the candidate and the result is selector "#submitBtn", confidence
\* 0.98, validated, obtained by the heuristic strategy
C11_SubmitButtonScenario ==
  (variant = "full" /\ pc = "emit" /\ conn = "ok" /\ cfg.heuristicSearch
     /\ cfg.description = "submit button" /\ cfg.candidates = <<CandSubmitBtn>>)
  => /\ selector = "#submitBtn" /\ confidence = 98 /\ validated
     /\ reasoning \in {"Heuristic match (exact)", "Heuristic match (fuzzy)"}
     /\ calls[idx].synth = 0 /\ calls[idx].fb = 0

\* the item is between reading its parameters and pushing its result
InItem == pc \in {"heuristic", "ai", "fallback", "emit"}

\* C12: when useAI is off and the heuristic phase has no validated hit, the
\* resolution goes straight to its end with validated = FALSE: no synthesis
\* call and no fallback call is made
C12_NoProviderSearchWithoutUseAI ==
  (variant = "full" /\ InItem /\ ~cfg.useAI) =>
     /\ pc \in {"heuristic", "emit"}
     /\ calls[idx].synth = 0 /\ calls[idx].fb = 0
     /\ validated => reasoning \in {"Heuristic match (exact)", "Heuristic match (fuzzy)"}

\* C12's case: useAI is off, the heuristic pass queried the page for a
\* matching candidate, accepted none, and the result is being pushed
C12_Witness ==
  /\ variant = "full" /\ pc = "emit" /\ conn = "ok" /\ ~cfg.useAI
  /\ HeuristicRuns(cfg) /\ candIx > Len(cfg.candidates) /\ calls[idx].page > 1
  /\ ~validated

\* C13: the browser connection of an item is closed on every exit path: no
\* path leaves the item, or execute by return or throw, with an opened
\* connection not closed
C13_BrowserClosedOnEveryExit ==
  (variant \in {"node", "full", "new"} /\ pc \in {"begin", "returned", "thrown"})
     => browser # "open"

\* C14: a failure to connect to the browser or to wait for the page is fatal:
\* it leaves execute as an exception and no result is pushed for the item
C14_ConnectivityFailureIsFatal ==
  (variant \in {"full", "p5", "node"} /\ conn \in {"connectThrows", "loadThrows"})
     => (pc = "thrown" /\ Len(results) = idx - 1)

\* C15: whatever the provider answers, the confidence of a pushed result lies
\* in [0, 1] (0..100 hundredths)
C15_ConfidenceInRange ==
  \A k \in 1..Len(results) :
     "confidence" \in DOMAIN results[k] =>
        (results[k].confidence >= 0 /\ results[k].confidence <= 100)

-----------------------------------------------------------------------------
(* Ranking on its own: sortSuggestions applied to any list of suggestions *)

SortEntries ==
  { Entry(sel, conf, "ai", isValidated, <<>>) :
      sel \in {"#a", "#b"}, conf \in {0, 50, 90}, isValidated \in BOOLEAN }

SortInputs == UNION { [1..n -> SortEntries] : n \in 0..MaxSortLen }

\* vals is the array handed to sortSuggestions
SortInit ==
  /\ items = <<>>
  /\ variant = "sort" /\ pc = "unsorted"
  /\ vals \in SortInputs
  /\ idx = 1 /\ results = <<>> /\ cfg = NoConfig /\ browser = "null" /\ proof = <<>>
  /\ selector = "" /\ confidence = 0 /\ reasoning = "" /\ alternatives = <<>>
  /\ validated = FALSE /\ attempts = 0 /\ chunkIx = 1 /\ candIx = 1
  /\ lastAi = "none" /\ conn = "none" /\ rejects = {}
  /\ calls = [k \in 1..MaxItems |-> NoCalls]
  /\ origin = NoOrigin
  /\ NoNeural

\* results[1] is the array sortSuggestions returns, results[2] the best
\* suggestion taken from it
SortStep ==
  /\ variant = "sort" /\ pc = "unsorted"
  /\ results' = <<sortSuggestions(vals), Best(vals)>>
  /\ pc' = "sorted"
  /\ UNCHANGED <<items, neural, origin, variant, idx, cfg, browser, proof, selector, confidence, reasoning,
                 alternatives, validated, attempts, chunkIx, candIx, vals, lastAi, conn,
                 rejects, calls>>

SortSpec == SortInit /\ [][SortStep]_vars

\* how often e occurs in list
Occurrences(list, e) == Cardinality({i \in 1..Len(list) : list[i] = e})

\* C16: after sortSuggestions no unvalidated suggestion precedes a validated
\* one, whatever the confidences; suggestions of equal validation status are
\* in non-increasing confidence order; the sorted list holds the suggestions
\* it was given; and the best suggestion is validated whenever a suggestion
\* of the list is
C16_ValidatedOutranksConfidence ==
  pc = "sorted" =>
    LET out == results[1]
    IN  /\ \A i, j \in 1..Len(out) :
             i < j => /\ ~(~out[i].validated /\ out[j].validated)
                      /\ out[i].validated = out[j].validated
                           => out[i].confidence >= out[j].confidence
        /\ Len(out) = Len(vals)
        /\ \A e \in SortEntries : Occurrences(out, e) = Occurrences(vals, e)
        /\ (\E i \in 1..Len(vals) : vals[i].validated) => results[2].validated

\* C16's case: an unvalidated suggestion of confidence 0.9 came before a
\* validated one of confidence 0, and the validated one is the best
C16_Witness ==
  /\ pc = "sorted" /\ Len(vals) >= 2
  /\ ~vals[1].validated /\ vals[1].confidence = 90
  /\ vals[2].validated /\ vals[2].confidence = 0
  /\ results[2] = vals[2]

\* the page answered with an element that fails the tag / type table for c
WrongType(c, a) == Exists(a) /\ ~TypeMatches(c.elementType, a.tag, a.typ)

\* the selectors an attempt has to try, as left in the locals by an attempt
\* without a hit
Proposed(sel, alts) == {i \in 1..(Len(alts) + 1) : ~Falsy((<<sel>> \o alts)[i])}

\* C17: with element type checkbox a selector whose element is an input of
\* type radio (or fails the tag / type table otherwise) never makes validated
\* true; the validator goes on to the next alternative, so that an attempt
\* without a hit has queried every proposed selector, and then, the provider
\* having answered, to the next attempt while attempts or chunks remain
C17_WrongTypeIsRejected ==
  [][(variant = "node" /\ pc = "ai" /\ cfg.elementType = "checkbox") =>
       /\ validated' =>
            /\ Len(proof') = 1 /\ Exists(proof'[1])
            /\ proof'[1].tag = "input" /\ proof'[1].typ = "checkbox"
       /\ (~validated' /\ lastAi' = "json") =>
            calls'[idx].page
              = calls[idx].page + Cardinality(Proposed(selector', alternatives'))
       /\ (~validated' /\ lastAi' # "never"
             /\ (attempts + 1 < cfg.maxAttempts \/ chunkIx < Chunks("node", cfg)))
            => pc' = "ai"
    ]_vars

\* C17's case: the first selector matched an input of type radio, was
\* rejected, and the alternative was tried and validated
C17_Witness ==
  /\ variant = "node" /\ cfg.elementType = "checkbox"
  /\ Found(1, "input", "radio") \in rejects
  /\ validated /\ selector = "#b"

\* C18: a selector the heuristic matcher built is accepted only if its live
\* match count is exactly 1; when the count is 0 or more than 1, or semantic
\* validation rejects it, the matcher moves on to the next candidate in
\* order, so the heuristic phase never reports a selector that matched
\* several elements
C18_HeuristicNeedsUniqueMatch ==
  /\ [][(variant = "full" /\ pc = "heuristic") =>
          /\ validated' =>
               /\ Len(proof') = 1 /\ ~proof'[1].err /\ proof'[1].n = 1
               /\ selector' = constructRobustSelector(cfg.candidates[candIx], candIx - 1)
          /\ (~validated' /\ reasoning' # "Execution Error") =>
               /\ candIx' = candIx + 1
               /\ candIx < Len(cfg.candidates) => pc' = "heuristic"
       ]_vars
  /\ [](HeuristicHit => proof[1].n = 1)

\* C18's case: with semantic validation off the first candidate matched the
\* description, its selector did not have exactly one match, and the matcher
\* went on to accept the second candidate
C18_Witness ==
  /\ HeuristicHit /\ ~cfg.semanticValidation /\ candIx = 2
  /\ IsExact(cfg.candidates[1], cfg.description) \/ IsFuzzy(cfg.candidates[1], cfg.description)

\* C19: a selector whose query on the page throws is a non-match and nothing
\* more: the resolution goes on with the next candidate, alternative, attempt
\* or strategy, and the failure neither ends the resolution nor becomes the
\* reported outcome
C19_InvalidSelectorIsRecoverable ==
  [][(variant \in {"full", "node"} /\ pc \in {"heuristic", "ai"}
        /\ InvalidSelector \in rejects')
      => /\ reasoning' # "Execution Error"
         /\ pc = "heuristic" =>
              /\ candIx' = candIx + 1
              /\ pc' = IF candIx < Len(cfg.candidates) THEN "heuristic"
                       ELSE AfterHeuristic(cfg, FALSE)
         /\ (pc = "ai" /\ ~validated'
               /\ (attempts + 1 < cfg.maxAttempts \/ chunkIx < Chunks(variant, cfg)))
              => pc' = "ai"
    ]_vars

\* C20: collecting the candidates never throws: when the query that collects
\* them fails the resolution proceeds with an empty candidate list, and with
\* useAI on a synthesis call is made before the result is pushed
C20_CandidateExtractionNeverThrows ==
  (variant = "full" /\ InItem /\ conn = "evaluateThrows" /\ ~cfg.discoveryMode) =>
     /\ cfg.candidates = <<>>
     /\ reasoning # "Execution Error"
     /\ (cfg.useAI /\ pc = "emit") => calls[idx].synth > 0

-----------------------------------------------------------------------------
(* Semantic validation on its own: runSemanticValidation applied to any     *)
(* selector, page answer and provider answer                                 *)

SemInputs ==
  { Config(1, "*", "Submit", <<>>, FALSE, TRUE, TRUE, sem, 1000, 0) : sem \in BOOLEAN }

\* cfg holds the semanticValidation parameter, selector the argument, proof
\* what page.$(sel) finds and lastAi what the provider answers
SemInit ==
  /\ items = <<>>
  /\ variant = "sem" /\ pc = "asking"
  /\ cfg \in SemInputs
  /\ selector \in {"#a", "button:has-text(\"Submit order\")"}
  /\ proof \in {<<a>> : a \in Answers("full")}
  /\ lastAi \in Verdicts
  /\ idx = 1 /\ results = <<>> /\ browser = "open"
  /\ confidence = 0 /\ reasoning = "" /\ alternatives = <<>>
  /\ validated = FALSE /\ attempts = 0 /\ chunkIx = 1 /\ candIx = 1
  /\ vals = <<>> /\ conn = "ok" /\ rejects = {}
  /\ calls = [k \in 1..MaxItems |-> NoCalls]
  /\ origin = NoOrigin
  /\ NoNeural

\* validated is what runSemanticValidation returns
SemStep ==
  /\ variant = "sem" /\ pc = "asking"
  /\ validated' = runSemanticValidation(cfg, proof[1], selector, lastAi)
  /\ Counts(0, IF SemAsks(cfg, proof[1], selector) THEN 1 ELSE 0, 0,
            IF SemQueries(cfg) THEN 1 ELSE 0)
  /\ pc' = "answered"
  /\ UNCHANGED <<items, neural, origin, variant, idx, results, cfg, browser, proof, selector, confidence,
                 reasoning, alternatives, attempts, chunkIx, candIx, vals, lastAi, conn,
                 rejects>>

SemSpec == SemInit /\ [][SemStep]_vars

\* C21: semantic validation fails open: for a selector that resolves to an
\* element, runSemanticValidation returns TRUE when the provider call throws
\* or its answer cannot be parsed; it returns FALSE only when the selector
\* resolves to no element or the provider answers matches = false; and with
\* semanticValidation off it makes no provider call
C21_SemanticValidationFailsOpen ==
  pc = "answered" =>
    /\ (cfg.semanticValidation /\ Exists(Query(proof[1], selector))
          /\ lastAi \in {"throws", "malformed"}) => validated
    /\ ~validated => (~Exists(Query(proof[1], selector)) \/ lastAi = "no")
    /\ ~cfg.semanticValidation => (validated /\ calls[idx].sem = 0)

-----------------------------------------------------------------------------
(* The results of the AI-only loops *)

C23_ResultIsStructured ==
  variant = "new" =>
    \A k \in 1..Len(results) : {"selector", "confidence", "validated"} \subseteq DOMAIN results[k]

-----------------------------------------------------------------------------
(* A batch: execute() of "node" and of "full" on several input items *)

BatchInit ==
  /\ items = [k \in 1..MaxBatchItems |-> Session(k)]
  /\ variant \in {"node", "full"}
  /\ idx = 1 /\ results = <<>> /\ pc = "begin" /\ cfg = NoConfig /\ browser = "null"
  /\ proof = <<>>
  /\ selector = "" /\ confidence = 0 /\ reasoning = "" /\ alternatives = <<>>
  /\ validated = FALSE /\ attempts = 0 /\ chunkIx = 1 /\ candIx = 1
  /\ vals = <<>> /\ lastAi = "none" /\ conn = "none" /\ rejects = {}
  /\ calls = [k \in 1..MaxBatchItems |-> NoCalls]
  /\ origin = NoOrigin
  /\ NoNeural

BatchNext ==
  \/ BeginFull
  \/ DiscoveryFull
  \/ HeuristicStep
  \/ AIAttemptFull
  \/ FallbackFull
  \/ EmitFull
  \/ ProviderNeverAnswers
  \/ BeginAiOnly
  \/ AIAttemptNode
  \/ EmitNode

BatchSpec == BatchInit /\ [][BatchNext]_vars

\* C24: the items of a batch are processed one after another in input order:
\* a connection is opened only at the start of an item, when the connection of
\* the item before it is closed and its result is recorded; the loop moves on
\* by one item, whose result is then the last one recorded; and when execute
\* returns the output holds one result per input item, in input order
C24_BatchInInputOrder ==
  /\ [][(browser' = "open" /\ browser # "open")
          => (pc = "begin" /\ Len(results) = idx - 1)]_vars
  /\ [][idx' # idx =>
          /\ idx' = idx + 1
          /\ results' = Append(results, results'[idx])
          /\ Len(results') = idx
          /\ results'[idx].sessionId = items[idx].sessionId
          /\ browser' # "open"]_vars
  /\ [](pc = "returned" =>
          /\ Len(results) = Len(items)
          /\ \A k \in 1..Len(items) : results[k].sessionId = items[k].sessionId)

\* C24's case: two items were connected to and resolved, and execute returned
C24_Witness ==
  /\ pc = "returned" /\ Len(items) = 2
  /\ calls[1].page > 0 /\ calls[2].page > 0
  /\ results[1].sessionId # results[2].sessionId

-----------------------------------------------------------------------------
(* Type filter and chunks *)

\* C25: for a page reached with non-empty HTML the chunk list is never empty,
\* also when the page has no element of the requested type (the filter falls
\* back to the unfiltered body), and at least one synthesis attempt is made
\* before the item's result is pushed
C25_FilterNeverLeavesNoChunk ==
  (variant \in {"node", "nodefb", "p5"} /\ conn = "ok" /\ pc \in {"ai", "fallback", "emit"}
     /\ cfg.htmlLen > 0)
  => /\ Chunks(variant, cfg) >= 1
     /\ pc \in {"fallback", "emit"} => calls[idx].synth >= 1

-----------------------------------------------------------------------------
(* Chunking on its own: the filtered HTML is cut into chunks and each chunk *)
(* is put into a prompt.  A piece of the HTML is the range of character     *)
(* positions from..to-1 it takes of the string that is cut.                 *)

Piece(from, to) == [from |-> from, to |-> to]

Min(a, b) == IF a < b THEN a ELSE b
Max(a, b) == IF a > b THEN a ELSE b

\* piece.slice(a, b), 0 <= a <= b
Slice(piece, a, b) ==
  Piece(Min(piece.from + a, piece.to), Min(piece.from + b, piece.to))

\* getRelevantHTML(html, maxLength): the string itself, or maxLength
\* characters around its middle
getRelevantHTML(html, maxLength) ==
  LET len == html.to - html.from
      mid == len \div 2
      start == Max(0, mid - maxLength \div 2)
  IN  IF len <= maxLength THEN html ELSE Slice(html, start, start + maxLength)

\* what of a chunk goes into the prompt: node, chunked
\* getRelevantHTML(chunk, 35000), full getRelevantHTML(chunk, 15000), p5 the chunk
InPrompt(v, chunk) ==
  CASE v \in {"node", "chunked"} -> getRelevantHTML(chunk, 35000)
    [] v = "full" -> getRelevantHTML(chunk, 15000)
    [] OTHER -> chunk

\* the length of the string the chunks are cut from: what the type filter
\* returns (node, full: at most 35000 characters), the page's body (chunked)
CutLen(v, c) ==
  CASE v \in {"node", "full"} -> Truncated(RelevantLen(c), 35000)
    [] v = "p5" -> FilteredLen(c)
    [] OTHER -> c.htmlLen

ChunkLens ==
  {1, 15000, 15001, 20000} \cup {k * chunkSize : k \in 1..MaxChunks}
     \cup {k * chunkSize + 1 : k \in 1..(MaxChunks - 1)}

ChunkInit ==
  /\ items = <<>>
  /\ variant \in {"node", "full", "chunked", "p5"}
  /\ pc = "slicing"
  /\ cfg \in { Config(1, "*", "Submit", <<>>, FALSE, FALSE, TRUE, FALSE, len, 0) :
                 len \in ChunkLens }
  /\ vals = <<>>
  /\ idx = 1 /\ results = <<>> /\ browser = "open" /\ proof = <<>>
  /\ selector = "" /\ confidence = 0 /\ reasoning = "" /\ alternatives = <<>>
  /\ validated = FALSE /\ attempts = 0 /\ chunkIx = 1 /\ candIx = 1
  /\ lastAi = "none" /\ conn = "ok" /\ rejects = {}
  /\ calls = [k \in 1..MaxItems |-> NoCalls]
  /\ origin = NoOrigin
  /\ NoNeural

\* vals is the chunk list.  full: const chunks = [bodyHTML]; the others: one
\* iteration of for (let start = 0; start < html.length; start += chunkSize)
SliceStep ==
  /\ variant \in {"node", "full", "chunked", "p5"} /\ pc = "slicing"
  /\ LET html == Piece(0, CutLen(variant, cfg))
         start == (chunkIx - 1) * chunkSize
     IN  IF variant = "full"
         THEN vals' = <<html>> /\ pc' = "sliced" /\ UNCHANGED chunkIx
         ELSE IF start < html.to
         THEN /\ vals' = Append(vals, Slice(html, start, start + chunkSize))
              /\ chunkIx' = chunkIx + 1
              /\ UNCHANGED pc
         ELSE pc' = "sliced" /\ UNCHANGED <<vals, chunkIx>>
  /\ UNCHANGED <<items, neural, origin, variant, idx, results, cfg, browser, proof, selector, confidence,
                 reasoning, alternatives, validated, attempts, candIx, lastAi, conn,
                 rejects, calls>>

\* results is what the prompts of the chunks hold, in the order of the chunk
\* loop
PromptStep ==
  /\ variant \in {"node", "full", "chunked", "p5"} /\ pc = "sliced"
  /\ results' = [i \in 1..Len(vals) |-> InPrompt(variant, vals[i])]
  /\ pc' = "offered"
  /\ UNCHANGED <<items, neural, origin, variant, idx, cfg, browser, proof, selector, confidence,
                 reasoning, alternatives, validated, attempts, chunkIx, candIx, vals,
                 lastAi, conn, rejects, calls>>

ChunkSpec == ChunkInit /\ [][SliceStep \/ PromptStep]_vars

\* C26: the pieces of HTML offered to the provider are non-overlapping and in
\* the original order, and put one after another they are the whole filtered
\* HTML; each has at most 35000 characters and each but the last exactly
\* 35000
C26_ChunksTileTheHtml ==
  (pc = "offered" /\ CutLen(variant, cfg) > 0) =>
     /\ Len(results) >= 1
     /\ results[1].from = 0
     /\ results[Len(results)].to = CutLen(variant, cfg)
     /\ \A i \in 1..(Len(results) - 1) :
          /\ results[i].to = results[i + 1].from
          /\ results[i].to - results[i].from = chunkSize
     /\ \A i \in 1..Len(results) : results[i].to - results[i].from <= chunkSize

-----------------------------------------------------------------------------
(* The heuristic matcher and the selectors it builds *)

\* C27: the heuristic matcher takes the candidates in document order and
\* selects the first one that matches the description, exactly or fuzzily,
\* and whose selector is accepted: a candidate that does not match is passed
\* without a query, the matcher moves past a candidate only when it has not
\* selected it, and the selected candidate's selector is the result; the
\* confidence is 0.98 if and only if the selected candidate matched exactly
\* and 0.85 otherwise, also when a later candidate matches exactly
C27_FirstMatchWinsWithItsConfidence ==
  /\ [][(variant = "full" /\ pc = "heuristic") =>
          LET cand == cfg.candidates[candIx]
              matches == IsExact(cand, cfg.description) \/ IsFuzzy(cand, cfg.description)
          IN  /\ ~matches => (~validated' /\ calls' = calls /\ candIx' = candIx + 1)
              /\ validated' =>
                   /\ matches
                   /\ candIx' = candIx
                   /\ selector' = constructRobustSelector(cand, candIx - 1)
                   /\ Len(proof') = 1 /\ HeuristicAccepts(proof'[1])
                   /\ confidence' = (IF IsExact(cand, cfg.description) THEN 98 ELSE 85)
                   /\ pc' # "heuristic"
              /\ candIx' \in {candIx, candIx + 1}
       ]_vars
  /\ [](HeuristicHit =>
          /\ confidence \in {85, 98}
          /\ (confidence = 98) = IsExact(cfg.candidates[candIx], cfg.description))

\* C27's case: the first candidate matched fuzzily and was selected with
\* confidence 0.85 although the second candidate matches exactly
C27_Witness ==
  /\ HeuristicHit /\ candIx = 1 /\ confidence = 85
  /\ Len(cfg.candidates) = 2
  /\ ~IsExact(cfg.candidates[1], cfg.description)
  /\ IsExact(cfg.candidates[2], cfg.description)

\* Selector construction on its own: constructRobustSelector applied to any
\* candidate
SelectorCands ==
  { [tagName |-> "a", id |-> id, name |-> name, href |-> href, ariaLabel |-> ariaLabel,
     placeholder |-> placeholder, title |-> title, alt |-> alt, text |-> text] :
      id \in {"", "go"}, name \in {"", "q"},
      href \in {"", "/a/b", "/docs/x1", "/docs/intro", "/docs/intro/"},
      ariaLabel \in {"", "Next"}, placeholder \in {"", "Search"}, title \in {"", "Tip"},
      alt \in {"", "Logo"},
      text \in {"", "OK", "Yes", "01234567890123456789012345678901234567890123456789"} }

\* cfg.candidates holds the candidate
SelectorInit ==
  /\ items = <<>>
  /\ variant = "selector" /\ pc = "building"
  /\ cfg \in { Config(1, "*", "Submit", <<t>>, FALSE, TRUE, TRUE, FALSE, 1000, 0) :
                 t \in SelectorCands }
  /\ idx = 1 /\ results = <<>> /\ browser = "open" /\ proof = <<>>
  /\ selector = "" /\ confidence = 0 /\ reasoning = "" /\ alternatives = <<>>
  /\ validated = FALSE /\ attempts = 0 /\ chunkIx = 1 /\ candIx = 1
  /\ vals = <<>> /\ lastAi = "none" /\ conn = "ok" /\ rejects = {}
  /\ calls = [k \in 1..MaxItems |-> NoCalls]
  /\ origin = NoOrigin
  /\ NoNeural

\* selector is what constructRobustSelector returns
SelectorStep ==
  /\ variant = "selector" /\ pc = "building"
  /\ selector' = constructRobustSelector(cfg.candidates[1], 0)
  /\ pc' = "built"
  /\ UNCHANGED <<items, neural, origin, variant, idx, results, cfg, browser, proof, confidence, reasoning,
                 alternatives, validated, attempts, chunkIx, candIx, vals, lastAi, conn,
                 rejects, calls>>

SelectorSpec == SelectorInit /\ [][SelectorStep]_vars

\* the selector the priority list gives for t: id, name, the last path
\* segment of href if it has at least 4 characters, aria-label, placeholder,
\* title, alt, the text if it has 2 to 49 characters, the position
PrioritySelector(t) ==
  IF t.id # "" THEN "#" \o t.id
  ELSE IF t.name # "" THEN "[name=\"" \o t.name \o "\"]"
  ELSE IF t.href # "" /\ ~Falsy(LastPart(t.href)) /\ Len(LastPart(t.href)) >= 4
       THEN t.tagName \o "[href*=\"" \o LastPart(t.href) \o "\"]"
  ELSE IF t.ariaLabel # "" THEN "[aria-label=\"" \o t.ariaLabel \o "\"]"
  ELSE IF t.placeholder # "" THEN "[placeholder=\"" \o t.placeholder \o "\"]"
  ELSE IF t.title # "" THEN "[title=\"" \o t.title \o "\"]"
  ELSE IF t.alt # "" THEN "[alt=\"" \o t.alt \o "\"]"
  ELSE IF Len(t.text) >= 2 /\ Len(t.text) <= 49
       THEN t.tagName \o ":has-text(\"" \o t.text \o "\")"
  ELSE t.tagName \o ":nth-of-type(1)"

\* C28: constructRobustSelector uses the first applicable attribute of the
\* priority list: an attribute of lower priority is used only when every one
\* of higher priority is absent or not applicable, an href whose last path
\* segment has fewer than 4 characters falling through to aria-label and the
\* attributes after it
C28_SelectorFollowsPriority ==
  pc = "built" => selector = PrioritySelector(cfg.candidates[1])

-----------------------------------------------------------------------------

\* C29: every provider call is bounded by a timeout: when the provider never
\* answers a synthesis call, the attempt fails and the item's result is still
\* pushed in the end; no execution waits for ever on a provider call
C29_ProviderCallTimesOut ==
  (variant \in {"node", "chunked"} /\ lastAi = "never") ~> (Len(results) >= idx)

-----------------------------------------------------------------------------

\* C30: session data flows through unchanged: the result pushed for an item
\* by a variant that reads the item as its session carries every field of
\* that session (sessionId, cdpUrl, success, ...) with the value it had on
\* input, the variant's own keys only being added, whether the search
\* succeeded or failed
C30_SessionFieldsPreserved ==
  variant # "new" =>
    \A k \in 1..Len(results) :
      \A f \in DOMAIN items[k] :
        f \in DOMAIN results[k] /\ results[k][f] = items[k][f]

-----------------------------------------------------------------------------
(* The advanced Type Into node: the typing and its retry                    *)

\* the node parameters typingStrategy and retryOnFailure, what
\* getRecommendedStrategy finds for the element and the text, and the
\* methods that throw on this element
TypeInputs ==
  [typingStrategy : {"auto", "fill", "keyboard"}, retryOnFailure : BOOLEAN,
   preferKeyboard : BOOLEAN, throwing : SUBSET {"fill", "keyboard"}]

\* return preferKeyboard ? 'keyboard' : 'fill'
getRecommendedStrategy(c) == IF c.preferKeyboard THEN "keyboard" ELSE "fill"

\* selectedStrategy after `if (selectedStrategy === 'auto') ...`
SelectedStrategy(c) ==
  IF c.typingStrategy = "auto" THEN getRecommendedStrategy(c) ELSE c.typingStrategy

\* selectedStrategy === 'keyboard' ? 'fill' : 'keyboard'
AlternativeStrategy(s) == IF s = "keyboard" THEN "fill" ELSE "keyboard"

\* if (!typingSuccess && retryOnFailure && typingStrategy === 'auto')
Retries(c, typingSuccess) ==
  ~typingSuccess /\ c.retryOnFailure /\ c.typingStrategy = "auto"

\* the element has been found; vals lists the methods performTyping ran with
\* and validated is typingSuccess
TypeInit ==
  /\ items = <<Session(1)>>
  /\ variant = "type" /\ pc = "typing"
  /\ cfg \in TypeInputs
  /\ selector = "#a" /\ proof = <<>> /\ lastAi = "none"
  /\ idx = 1 /\ results = <<>> /\ browser = "open"
  /\ confidence = 0 /\ reasoning = "" /\ alternatives = <<>>
  /\ validated = FALSE /\ attempts = 0 /\ chunkIx = 1 /\ candIx = 1
  /\ vals = <<>> /\ conn = "ok" /\ rejects = {}
  /\ calls = [k \in 1..MaxItems |-> NoCalls]
  /\ origin = NoOrigin
  /\ NoNeural

\* try { await performTyping(selectedStrategy); typingSuccess = true } catch
TypeFirst ==
  /\ variant = "type" /\ pc = "typing"
  /\ vals' = <<SelectedStrategy(cfg)>>
  /\ validated' = (SelectedStrategy(cfg) \notin cfg.throwing)
  /\ pc' = "tried"
  /\ UNCHANGED <<items, neural, origin, variant, idx, results, cfg, browser, proof, selector, confidence,
                 reasoning, alternatives, attempts, chunkIx, candIx, lastAi, conn,
                 rejects, calls>>

\* the retry block, then `if (!typingSuccess && lastError) throw lastError`
TypeRetry ==
  /\ variant = "type" /\ pc = "tried"
  /\ IF Retries(cfg, validated)
       THEN /\ vals' = Append(vals, AlternativeStrategy(vals[1]))
            /\ validated' = (AlternativeStrategy(vals[1]) \notin cfg.throwing)
       ELSE UNCHANGED <<vals, validated>>
  /\ pc' = IF validated' THEN "typed" ELSE "caught"
  /\ UNCHANGED <<items, neural, origin, variant, idx, results, cfg, browser, proof, selector, confidence,
                 reasoning, alternatives, attempts, chunkIx, candIx, lastAi, conn,
                 rejects, calls>>

\* the rest of the try or the catch, and
\* results.push({json: {...session, typeAction: typingResult}})
TypeEmit ==
  /\ variant = "type" /\ pc \in {"typed", "caught"}
  /\ results' = Append(results, Spread(items[idx],
                  [result |-> IF pc = "typed" THEN "success" ELSE "error",
                   typingMethod |-> IF validated THEN vals[Len(vals)] ELSE ""]))
  /\ browser' = "closed"
  /\ pc' = "returned"
  /\ UNCHANGED <<items, neural, origin, variant, idx, cfg, proof, selector, confidence, reasoning,
                 alternatives, validated, attempts, chunkIx, candIx, vals, lastAi, conn,
                 rejects, calls>>

TypeSpec == TypeInit /\ [][TypeFirst \/ TypeRetry \/ TypeEmit]_vars

\* C31: with Retry on Failure on, the item is reported as an error only after
\* the alternative method has been tried as well, whichever typing strategy
\* (auto, fill or keyboard) was selected
C31_RetryTriesAlternative ==
  (pc = "returned" /\ cfg.retryOnFailure /\ results[1].result = "error")
     => Len(vals) = 2 /\ vals[2] = AlternativeStrategy(vals[1])

-----------------------------------------------------------------------------
(* The session manager: launchGoogleSession and closeSession against a      *)
(* Selenium hub reached through reqJSON                                     *)

\* how the hub and the network treat POST /session:
\*   "refused"  the request fails before the hub creates anything (rejects)
\*   "timedOut" the hub creates the session after the request was destroyed
\*              by its 30000 ms timeout (rejects)
\*   "noId"     the hub creates the session, the body carries no
\*              value.sessionId (resolves; sessionId and cdpUrl undefined)
\*   "error"    the hub answers with an error status and no session
\*   "noCdp"    the hub creates the session, the capabilities lack se:cdp
\*   "created"  the hub creates the session and answers with id and se:cdp
PostOutcomes == {"refused", "timedOut", "noId", "error", "noCdp", "created"}

\* how DELETE /session/:id ends: status 200, an error status such as 404
\* (reqJSON resolves whatever the status), or a failed request (rejects)
DeleteOutcomes == {"ok", "errorStatus", "fails"}

\* reqJSON rejects only on req 'error' (a timeout destroys the request with
\* an error); any status that is answered resolves
reqJSONRejects(outcome) == outcome = "fails"

\* the environment of one launchGoogleSession call
LaunchInputs ==
  [post : PostOutcomes, connect : {"ok", "throws"}, goto : {"ok", "throws"},
   close : {"ok", "throws"}, del : DeleteOutcomes]

\* the hub holds a session that this call created
HubCreated(c, log) ==
  /\ \E i \in 1..Len(log) : log[i] = "POST"
  /\ c.post \in {"timedOut", "noId", "noCdp", "created"}

\* how often op was invoked
Invoked(log, op) == Cardinality({i \in 1..Len(log) : log[i] = op})

\* pc = "launch": launchGoogleSession(params) is entered; pc = "close":
\* closeSession(items[1]) is entered.  selector is the local sessionId ("" for
\* null), browser the local browser, vals the requests and calls issued
SessionInit ==
  /\ variant = "session"
  /\ \/ pc = "launch" /\ cfg \in LaunchInputs /\ items = <<>>
     \/ pc = "close"
          /\ cfg \in [post : {"created"}, connect : {"ok"}, goto : {"ok"},
                      close : {"ok"}, del : DeleteOutcomes]
          /\ items = <<Spread(Session(1), [seleniumHubUrl |-> "http://hub"])>>
  /\ selector = "" /\ browser = "null" /\ vals = <<>> /\ results = <<>>
  /\ proof = <<>> /\ lastAi = "none" /\ idx = 1
  /\ confidence = 0 /\ reasoning = "" /\ alternatives = <<>>
  /\ validated = FALSE /\ attempts = 0 /\ chunkIx = 1 /\ candIx = 1
  /\ conn = "ok" /\ rejects = {}
  /\ calls = [k \in 1..MaxItems |-> NoCalls]
  /\ origin = NoOrigin
  /\ NoNeural

\* const sessionResp = await reqJSON('POST', ...); sessionId = ...?.sessionId
LaunchPost ==
  /\ variant = "session" /\ pc = "launch"
  /\ vals' = Append(vals, "POST")
  /\ selector' = IF cfg.post \in {"noCdp", "created"} THEN "session-1" ELSE ""
  /\ pc' = IF cfg.post \in {"refused", "timedOut"} THEN "catch" ELSE "connect"
  /\ reasoning' = IF cfg.post = "refused" THEN "request failed"
                  ELSE IF cfg.post = "timedOut" THEN "Request timeout"
                  ELSE reasoning
  /\ UNCHANGED <<items, neural, origin, variant, idx, results, cfg, browser, proof, confidence,
                 alternatives, validated, attempts, chunkIx, candIx, lastAi, conn,
                 rejects, calls>>

\* browser = await playwright.chromium.connectOverCDP(cdpUrl): throws when
\* cdpUrl is undefined
LaunchConnect ==
  /\ variant = "session" /\ pc = "connect"
  /\ vals' = Append(vals, "connect")
  /\ IF cfg.post = "created" /\ cfg.connect = "ok"
       THEN browser' = "open" /\ pc' = "goto" /\ UNCHANGED reasoning
       ELSE pc' = "catch" /\ reasoning' = "connect failed" /\ UNCHANGED browser
  /\ UNCHANGED <<items, neural, origin, variant, idx, results, cfg, proof, selector, confidence,
                 alternatives, validated, attempts, chunkIx, candIx, lastAi, conn,
                 rejects, calls>>

\* await page.goto(...); title; currentUrl
LaunchGoto ==
  /\ variant = "session" /\ pc = "goto"
  /\ vals' = Append(vals, "goto")
  /\ IF cfg.goto = "ok"
       THEN pc' = "closing" /\ UNCHANGED reasoning
       ELSE pc' = "catch" /\ reasoning' = "goto failed"
  /\ UNCHANGED <<items, neural, origin, variant, idx, results, cfg, browser, proof, selector,
                 confidence, alternatives, validated, attempts, chunkIx, candIx, lastAi,
                 conn, rejects, calls>>

\* await browser.close(); return { success: true, ..., step: 'launch' }
LaunchClose ==
  /\ variant = "session" /\ pc = "closing"
  /\ vals' = Append(vals, "close")
  /\ IF cfg.close = "ok"
       THEN /\ browser' = "closed"
            /\ results' = <<[success |-> TRUE, sessionId |-> selector,
                             cdpUrl |-> "ws://cdp", step |-> "launch"]>>
            /\ pc' = "returned"
            /\ UNCHANGED reasoning
       ELSE /\ pc' = "catch" /\ reasoning' = "close failed"
            /\ UNCHANGED <<browser, results>>
  /\ UNCHANGED <<items, neural, origin, variant, idx, cfg, proof, selector, confidence, alternatives,
                 validated, attempts, chunkIx, candIx, lastAi, conn, rejects, calls>>

\* catch: if (browser) await browser.close().catch(() => {});
\* if (sessionId) await reqJSON('DELETE', ...).catch(() => {});
\* return { success: false, error, step: 'launch', sessionId, cdpUrl: '' }
LaunchCatch ==
  /\ variant = "session" /\ pc = "catch"
  /\ vals' = vals \o (IF browser # "null" THEN <<"close">> ELSE <<>>)
                  \o (IF selector # "" THEN <<"DELETE">> ELSE <<>>)
  /\ browser' = IF browser # "null" THEN "closed" ELSE browser
  /\ results' = <<[success |-> FALSE, error |-> reasoning, step |-> "launch",
                   sessionId |-> selector, cdpUrl |-> ""]>>
  /\ pc' = "returned"
  /\ UNCHANGED <<items, neural, origin, variant, idx, cfg, proof, selector, confidence, reasoning,
                 alternatives, validated, attempts, chunkIx, candIx, lastAi, conn,
                 rejects, calls>>

\* closeSession(session): try { await reqJSON('DELETE', ...); return
\* {...session, success: true, step: 'close'} } catch { return {...session,
\* success: false, error, step: 'close'} }
closeSession ==
  /\ variant = "session" /\ pc = "close"
  /\ vals' = Append(vals, "DELETE")
  /\ results' = <<IF reqJSONRejects(cfg.del)
                    THEN Spread(items[1], [success |-> FALSE, error |-> "request failed",
                                           step |-> "close"])
                    ELSE Spread(items[1], [success |-> TRUE, step |-> "close",
                                           message |-> "Session closed successfully"])>>
  /\ pc' = "returned"
  /\ UNCHANGED <<items, neural, origin, variant, idx, cfg, browser, proof, selector, confidence,
                 reasoning, alternatives, validated, attempts, chunkIx, candIx, lastAi,
                 conn, rejects, calls>>

SessionSpec ==
  SessionInit /\ [][LaunchPost \/ LaunchConnect \/ LaunchGoto \/ LaunchClose \/ LaunchCatch
                      \/ closeSession]_vars

\* C32: closeSession returns a session object with step 'close' (it does not
\* throw), with success = true only if the hub accepted the DELETE, and with
\* success = false when the hub answered with an error status or the request
\* failed
C32_CloseReportsTheHubsAnswer ==
  (pc = "returned" /\ Len(items) = 1) =>
    /\ results[1].step = "close"
    /\ results[1].success <=> (cfg.del = "ok")

-----------------------------------------------------------------------------
(* The semantic fallback on its own, for candidate lists longer than the    *)
(* part put into the prompt: the candidates are known by their position     *)

\* candidates.slice(0, 50)
semCandidateLimit == 50

\* the environment of one run of the fallback block: candidates.length;
\* p.index as parsed from the provider's answer (absent, null, a number with
\* a fraction, or an integer); and whether page.$(sel) finds an element for
\* the selector of whichever candidate is picked
FallbackInputs ==
  [nCands : {0, 1, semCandidateLimit - 1, semCandidateLimit, semCandidateLimit + 1,
             semCandidateLimit + 2},
   answer : [kind : {"noIndex", "null", "fraction"}, index : {0}]
              \cup [kind : {"index"},
                    index : {-1, 0, semCandidateLimit - 1, semCandidateLimit,
                             semCandidateLimit + 1, semCandidateLimit + 2}],
   found : BOOLEAN]

\* candidates.slice(0, 50).length
SentCount(n) == Min(n, semCandidateLimit)

\* candidates[p.index] is a candidate (not undefined)
Designates(n, answer) ==
  answer.kind = "index" /\ answer.index >= 0 /\ answer.index < n

\* candidates[p.index] is one of the candidates in the prompt
DesignatesSent(n, answer) ==
  answer.kind = "index" /\ answer.index >= 0 /\ answer.index < SentCount(n)

\* attempts holds the number of candidates put into the prompt, lastAi what
\* became of the block
FallbackInit ==
  /\ items = <<>>
  /\ variant = "fallback" /\ pc = "fallback"
  /\ cfg \in FallbackInputs
  /\ selector = "" /\ proof = <<>> /\ lastAi = "none"
  /\ idx = 1 /\ results = <<>> /\ browser = "open"
  /\ confidence = 0 /\ reasoning = "" /\ alternatives = <<>>
  /\ validated = FALSE /\ attempts = 0 /\ chunkIx = 1 /\ candIx = 1
  /\ vals = <<>> /\ conn = "ok" /\ rejects = {}
  /\ calls = [k \in 1..MaxItems |-> NoCalls]
  /\ origin = NoOrigin
  /\ NoNeural

\* if (!validated && candidates.length > 0) { ... try { ...
\*   if (p.index !== undefined) { const t = candidates[p.index];
\*     const sel = constructRobustSelector(t);
\*     if (await page.$(sel)) { selector = sel; validated = true; ... } }
\* } catch {} }
FallbackStep ==
  /\ variant = "fallback" /\ pc = "fallback"
  /\ IF cfg.nCands = 0
       THEN /\ UNCHANGED <<attempts, lastAi, selector, validated, reasoning, candIx>>
            /\ Counts(0, 0, 0, 0)
       ELSE /\ attempts' = SentCount(cfg.nCands)
            /\ IF cfg.answer.kind = "noIndex"
                 THEN /\ lastAi' = "noIndex"
                      /\ Counts(0, 0, 1, 0)
                      /\ UNCHANGED <<selector, validated, reasoning, candIx>>
               ELSE IF ~Designates(cfg.nCands, cfg.answer)
                 THEN \* constructRobustSelector(undefined) throws, catch {}
                      /\ lastAi' = "caught"
                      /\ Counts(0, 0, 1, 0)
                      /\ UNCHANGED <<selector, validated, reasoning, candIx>>
               ELSE /\ lastAi' = "index"
                    /\ Counts(0, 0, 1, 1)
                    /\ candIx' = cfg.answer.index + 1
                    /\ IF cfg.found
                         THEN /\ selector' = "candidate"
                              /\ validated' = TRUE
                              /\ reasoning' = "Semantic match"
                         ELSE UNCHANGED <<selector, validated, reasoning>>
  /\ pc' = "emit"
  /\ UNCHANGED <<items, neural, origin, variant, idx, results, cfg, browser, proof, confidence,
                 alternatives, chunkIx, vals, conn, rejects>>

\* finally { if (browser) await browser.close(); }  results.push(...)
FallbackEmit ==
  /\ variant = "fallback" /\ pc = "emit"
  /\ browser' = "closed"
  /\ results' = <<[selector |-> selector, confidence |-> confidence,
                   reasoning |-> reasoning, validated |-> validated]>>
  /\ pc' = "returned"
  /\ UNCHANGED <<items, neural, origin, variant, idx, cfg, proof, selector, confidence, reasoning,
                 alternatives, validated, attempts, chunkIx, candIx, vals, lastAi, conn,
                 rejects, calls>>

FallbackSpec == FallbackInit /\ [][FallbackStep \/ FallbackEmit]_vars

\* C33: the fallback puts at most the first 50 candidates into the prompt and
\* marks the result validated only if the returned index designates one of
\* the candidates sent and the selector built for it exists in the DOM; any
\* other index leaves the result unvalidated, and the block always goes on to
\* the result
C33_FallbackIndexDesignatesSentCandidate ==
  /\ attempts <= semCandidateLimit
  /\ pc \in {"fallback", "emit", "returned"}
  /\ (pc # "fallback" /\ validated) =>
        DesignatesSent(cfg.nCands, cfg.answer) /\ cfg.found

-----------------------------------------------------------------------------
(* The provenance of the result's fields *)

\* the outcomes that wrote the locals the result is built from
Writers == {origin[f] : f \in Locals} \ {Outcome("init", 0, 0)}

\* C34: the fields of an emitted result are mutually consistent: selector,
\* confidence, reasoning and alternatives, where written at all, were all
\* written by one and the same strategy outcome (one AI response, one
\* heuristic match or one fallback answer); no field left over from an
\* earlier attempt or strategy stands next to one written by a later one
C34_ResultFieldsFromOneOutcome ==
  (variant \in {"full", "node", "chunked", "nodefb"} /\ pc = "emit")
     => Cardinality(Writers) <= 1

-----------------------------------------------------------------------------
(* How often a connection is closed *)

\* C35: the connection opened for an item is closed exactly once: when the
\* item is left, by the next iteration, by return or by throw, close has been
\* invoked on its connection, and not twice
C35_ConnectionClosedExactlyOnce ==
  (variant \in Variants /\ pc \in {"begin", "returned", "thrown"} /\ browser # "null")
     => browser = "closed"

-----------------------------------------------------------------------------
(* A connection failure in the middle of a batch *)

\* C36: when connecting to the browser fails for the k-th item, execute
\* throws: no result is pushed for item k, the results of items 1..k-1 never
\* reach a return, and no later item is begun
C36_ConnectFailureAbortsBatch ==
  /\ [](variant \in {"node", "new"} =>
          /\ (conn \notin {"none", "ok"}) => (pc = "thrown" /\ Len(results) = idx - 1)
          /\ pc = "returned" => Len(results) = Len(items))
  /\ [][(variant \in {"node", "new"} /\ pc = "thrown") => FALSE]_vars

\* C36's case: the first item of a batch was resolved and its result
\* recorded, connecting failed for the second, and execute has thrown
C36_Witness ==
  /\ variant = "node" /\ Len(items) = 2 /\ idx = 2
  /\ pc = "thrown" /\ conn = "connectThrows"
  /\ Len(results) = 1 /\ calls[1].page > 0

-----------------------------------------------------------------------------
(* What launchGoogleSession leaves behind *)

\* C37: launchGoogleSession always returns a session object with step
\* 'launch'; when it returns success = false after the hub had created a
\* Selenium session it has issued a DELETE for that session; a Playwright
\* connection it opened has been closed; and when it returns success = true
\* the Selenium session has not been deleted
C37_LaunchCleansUp ==
  /\ (variant = "session" /\ Len(items) = 0) => pc # "thrown"
  /\ (variant = "session" /\ Len(items) = 0 /\ pc = "returned") =>
       /\ results[1].step = "launch"
       /\ (~results[1].success /\ HubCreated(cfg, vals)) => Invoked(vals, "DELETE") > 0
       /\ browser # "null" => browser = "closed"
       /\ results[1].success => Invoked(vals, "DELETE") = 0

-----------------------------------------------------------------------------
(* NeuralHeuristic: calls interleaving on the singleton.  JavaScript runs    *)
(* each call up to its next await without interruption; a call suspended at *)
(* an await resumes in a later step                                         *)

Callers == 1..MaxCallers

\* if (this.extractor || this.isInitializing) return;
InitReturnsIfLoaded(ext, initializing) == ext # "null"
InitReturns(ext, initializing) == ext # "null" \/ initializing

NeuralInit ==
  /\ items = <<>>
  /\ variant = "neural" /\ pc = "none"
  /\ cfg = NoConfig
  /\ selector = "" /\ proof = <<>> /\ lastAi = "none"
  /\ idx = 1 /\ results = <<>> /\ browser = "null"
  /\ confidence = 0 /\ reasoning = "" /\ alternatives = <<>>
  /\ validated = FALSE /\ attempts = 0 /\ chunkIx = 1 /\ candIx = 1
  /\ vals = <<>> /\ conn = "none" /\ rejects = {}
  /\ calls = [k \in 1..MaxItems |-> NoCalls]
  /\ origin = NoOrigin
  /\ extractor = "null" /\ isInitializing = FALSE /\ loads = <<>>
  /\ tasks = [t \in Callers |-> [kind |-> "none", pc |-> "idle", ret |-> "none", load |-> 0]]

\* the synchronous part of init(): either it returns at once, or it sets
\* isInitializing and suspends at `await pipeline(...)`.  load is the load
\* the call started or, for a call that found one in flight, that load
CallInit(t, kind) ==
  IF InitReturns(extractor, isInitializing)
    THEN /\ tasks' = [tasks EXCEPT ![t] =
                        [kind |-> kind,
                         pc |-> IF kind = "init" THEN "done" ELSE "afterInit",
                         ret |-> IF kind = "init" THEN "void" ELSE "none",
                         load |-> IF isInitializing THEN Len(loads) ELSE 0]]
         /\ UNCHANGED <<extractor, isInitializing, loads>>
    ELSE /\ isInitializing' = TRUE
         /\ loads' = Append(loads, "pending")
         /\ tasks' = [tasks EXCEPT ![t] =
                        [kind |-> kind, pc |-> "loading", ret |-> "none",
                         load |-> Len(loads) + 1]]
         /\ UNCHANGED extractor

\* a caller calls init() itself
init(t) ==
  /\ variant = "neural" /\ tasks[t].pc = "idle"
  /\ CallInit(t, "init")
  /\ UNCHANGED execVars

\* getEmbedding(text) up to its first await:
\* if (!this.extractor) await this.init(); ...
getEmbedding(t) ==
  /\ variant = "neural" /\ tasks[t].pc = "idle"
  /\ IF extractor = "null"
       THEN CallInit(t, "getEmbedding")
       ELSE /\ tasks' = [tasks EXCEPT ![t] =
                           [kind |-> "getEmbedding", pc |-> "extracting", ret |-> "none",
                            load |-> 0]]
            /\ UNCHANGED <<extractor, isInitializing, loads>>
  /\ UNCHANGED execVars

\* pipeline() resolves or rejects: this.extractor = ...; catch logs;
\* finally { this.isInitializing = false; }
PipelineSettles(t) ==
  /\ variant = "neural" /\ tasks[t].pc = "loading"
  /\ \E outcome \in {"ok", "failed"} :
       /\ extractor' = IF outcome = "ok" THEN "model" ELSE extractor
       /\ loads' = [loads EXCEPT ![tasks[t].load] = outcome]
  /\ isInitializing' = FALSE
  /\ tasks' = [tasks EXCEPT ![t].pc = IF tasks[t].kind = "init" THEN "done" ELSE "afterInit",
                            ![t].ret = IF tasks[t].kind = "init" THEN "void" ELSE "none"]
  /\ UNCHANGED execVars

\* getEmbedding after `await this.init()`:
\* if (!this.extractor) return []; ... await this.extractor(text, ...)
ResumeGetEmbedding(t) ==
  /\ variant = "neural" /\ tasks[t].pc = "afterInit"
  /\ tasks' = IF extractor = "null"
                THEN [tasks EXCEPT ![t].pc = "done", ![t].ret = "emptyNoExtractor"]
                ELSE [tasks EXCEPT ![t].pc = "extracting"]
  /\ UNCHANGED <<extractor, isInitializing, loads>>
  /\ UNCHANGED execVars

\* the extractor resolves (return Array.from(output.data)) or rejects
\* (catch: return [])
ExtractorSettles(t) ==
  /\ variant = "neural" /\ tasks[t].pc = "extracting"
  /\ \E r \in {"embedding", "emptyOnError"} :
       tasks' = [tasks EXCEPT ![t].pc = "done", ![t].ret = r]
  /\ UNCHANGED <<extractor, isInitializing, loads>>
  /\ UNCHANGED execVars

NeuralSpec ==
  NeuralInit /\ [][\E t \in Callers :
                      \/ init(t)
                      \/ getEmbedding(t)
                      \/ PipelineSettles(t)
                      \/ ResumeGetEmbedding(t)
                      \/ ExtractorSettles(t)]_vars

\* the calls suspended at `await pipeline(...)`
Loading == {t \in DOMAIN tasks : tasks[t].pc = "loading"}

\* C38: with several callers interleaving on the singleton, the model is
\* never being loaded by two init calls at the same time, isInitializing is
\* true exactly while a load is in flight, and once the extractor has been
\* set no load is started again and the extractor stays
C38_OneLoadAtATime ==
  /\ [](variant = "neural" =>
          /\ Cardinality(Loading) <= 1
          /\ isInitializing <=> (Loading # {}))
  /\ [][(variant = "neural" /\ extractor # "null") =>
          (loads' = loads /\ extractor' = extractor)]_vars

\* C38's case: one call is loading the model, a second call came in
\* meanwhile and found the load in flight; and a call made after a failed
\* load started a second load
C38_Witness ==
  /\ variant = "neural"
  /\ \E t \in Callers, u \in Callers :
       /\ t # u
       /\ tasks[t].pc = "loading" /\ tasks[t].load = 2 /\ loads[1] = "failed"
       /\ tasks[u].kind # "none" /\ tasks[u].load = 2

\* C39: a getEmbedding call that arrives while another call's load is in
\* flight does not return the empty vector merely because of that: when the
\* load it found in flight has succeeded, the call has not returned [] for
\* want of an extractor
C39_WaitsForLoadInFlight ==
  variant = "neural" =>
    \A t \in Callers :
      (tasks[t].ret = "emptyNoExtractor" /\ tasks[t].load > 0)
         => loads[tasks[t].load] # "ok"

====
